---- MODULE Spec2Model ----
(***************************************************************************)
(* Model of the JACK audio engine of auto-kj (src/auto-kj/audio.py):       *)
(* the real-time process callback (3:1 decimator + frame queue push), the  *)
(* consumer side get_frame(), and the engine's running flag life cycle.    *)
(*                                                                         *)
(* A sample is identified by its position in the native-rate (48 kHz)      *)
(* capture stream.  A numpy array is a sequence of runs <<lo, n, st>>:     *)
(* the n positions lo, lo+st, ..., lo+(n-1)*st.                            *)
(***************************************************************************)
EXTENDS Integers, Sequences, FiniteSets, TLC

\* ---- program constants (audio.py:11-14) ----
JACK_RATE == 48000
JACK_PERIOD == 256
FRAME_SIZE == 1280
\* int16_data = np.clip(downsampled * 32767, -32768, 32767).astype(np.int16)
INT16_SCALE == 32767
INT16_MIN == -32768
INT16_MAX == 32767
\* AUTOKJ_MIC_GAIN default (config.py)
MIC_GAIN == 2
\* source_rate of both synthesizers (voice/tts.py)
TTS_RATE == 22050

\* ---- bounds of the model ----
MaxCallbacks == 3
MaxCallbacksMulti == 2
MaxCallbacksFair == 2
CapacityProbe == 2
MaxCallbacksEngine == 2
MaxShutdowns == 2
MaxUtterances == 2
MaxTtsCalls == 3
PlayTimeoutTicks == 3
ReverbRate == 200
MaxReverbCalls == 3
MaxSmCalls == 3
MaxQueueCalls == 4
MaxVolumeCalls == 11
MaxCacheCalls == 5
MaxProbeAttempts == 2
MaxStartCallbacks == 2
MaxSmallDelay == 10
MaxSpeakCalls == 3
MaxKjEvents == 2

\* block lengths the server hands to the callback (len(mic_data))
BlockSizes == {2, JACK_PERIOD, 300, 3 * FRAME_SIZE}

\* amplitudes of the captured signal, in units of 1/AmpDen: -1.5 and 1.25
\* (both clipped) and 0.5
AmpDen == 4
Amplitudes == {-6, 2, 5}
HalfAmplitude == 2

\* SchroederReverb.__init__: delays are given for 44100 Hz and scaled to the
\* rate of the instance; gains in hundredths
REVERB_BASE_RATE == 44100
comb_base_delays == <<1557, 1617, 1491, 1422>>
comb_gains == <<74, 71, 68, 65>>
ap_base_delays == <<225, 556>>
ap_gain == 50
GainDen == 100
\* sample values of the reverb are fixed-point numbers: 1.0 is SampleUnit
SampleUnit == 1000

\* input blocks of process(): an impulse, silence, a loud block, a block
\* beyond full scale (the monitor path feeds mic * gain) and a single sample
ImpulseBlock == <<SampleUnit, 0, 0, 0>>
SilentBlock == <<0, 0, 0, 0>>
ReverbBlocks == {ImpulseBlock, SilentBlock, <<900, 900>>, <<2000, -2000, 500>>, <<-SampleUnit>>}

\* wet ratios, in hundredths: below zero, zero, the default 0.3 and 0.5
WetRatios == {-10, 0, 30, 50}

\* state.py: KaraokeState and VALID_TRANSITIONS
IDLE == "idle"
PLAYING == "playing"
PAUSED == "paused"
LISTENING == "listening"
KaraokeState == {IDLE, PLAYING, PAUSED, LISTENING}
VALID_TRANSITIONS ==
    [s \in KaraokeState |->
        CASE s = IDLE -> {PLAYING, LISTENING}
          [] s = PLAYING -> {IDLE, PAUSED, LISTENING}
          [] s = PAUSED -> {PLAYING, IDLE, LISTENING}
          [] s = LISTENING -> {IDLE, PLAYING, PAUSED}]

\* playback.py: Player volume, its step and its limits
INITIAL_VOLUME == 100
VOLUME_STEP == 10
VOLUME_MIN == 0
VOLUME_MAX == 150

\* threads that use the song queue: the end-of-song watcher and the command
\* handling; the songs they queue; the methods of the queue
SqThreads == {"end", "cmd"}
Songs == {"a", "b"}
SqOps == {"add", "next", "peek", "list", "is_empty"}

\* songs/cache.py: the ids of the songs offered to the cache, the sizes of
\* their directories, and the size limit of the runs
SongIds == {"vid1", "vid2", "vid3"}
SongSizes == {0, 4, 6, 12}
CacheLimit == 10

\* the reference delays and sample rates the delay computation is applied to
ReferenceDelays == {comb_base_delays[i] : i \in 1..Len(comb_base_delays)}
                       \cup {ap_base_delays[i] : i \in 1..Len(ap_base_delays)}
DelayInputs == ReferenceDelays \cup 1..MaxSmallDelay
DelayRates == {22050, REVERB_BASE_RATE, JACK_RATE, 96000}

\* threads that call speak(): the main thread (main.py:304, 319) and the
\* command handling (main.py:115-186); the texts they speak
SpThreads == {"main", "cmd"}
Texts == {"ready", "searching"}

\* the threads of main.py: the keyboard listener (_on_spacebar), the mic
\* loop, the _check threads of _try_start_playback and the player's
\* _wait_for_end thread (_on_song_end)
Checkers == {"chk1", "chk2"}
KjThreads == {"kbd", "mic", "end"} \cup Checkers

\* threads that change the volume: the keyboard listener (main.py:48-49)
\* and the voice command handling (main.py:154-158)
VolThreads == {"kbd", "cmd"}

\* threads that drive the state machine: the keyboard listener and the mic loop
SmThreads == {"kbd", "mic"}

\* lengths of a synthesized utterance, in samples at TTS_RATE: nothing, and
\* buffers that resample to just under, exactly and just over one period
\* and to more than two periods
SourceLengths == {0, 117, 118, 119, 240}

\* failures of the outside world a run may meet
AllFaults == {"connect_fails", "deactivate_raises", "grace_timeout",
              "terminate_raises", "kill_raises"}

\* consumer threads: the mic loop alone, or the mic loop and a second reader
SingleConsumer == {"mic"}
MultiConsumers == {"mic", "aux"}

VARIABLES
    running,      \* self._running
    phase,        \* engine life cycle: new / probing / connecting / active / failed / lost / stopped
    total,        \* native-rate samples delivered by the capture port so far
    ds_buf,       \* self._ds_buf
    frame_buf,    \* self._frame_buf : sequence of arrays
    frame_event,  \* self._frame_event
    lock,         \* holder of self._frame_lock: "none", "cb" or a consumer
    cbpc,         \* position of the callback thread: idle / lock / push
    cb_data,      \* int16_data of the callback invocation in progress
    cbCount,      \* callback invocations so far
    budget,       \* callback invocations this run explores
    consumers,    \* the consumer threads of this run
    pc,           \* position of each consumer inside get_frame()
    acc,          \* accumulated (local of get_frame)
    ret,          \* last value returned by get_frame to each consumer
    waited,       \* the current/last call has gone through the event wait
    waitsAfterStop, \* event waits a call completed after the flag was cleared
    calledRunning,  \* value of the running flag when the call was made
    pushed,       \* history: concatenation of every chunk pushed
    delivered,    \* history: concatenation of every frame returned
    amp,          \* amplitude of the captured signal of this run (1/AmpDen units)
    software_monitor, \* self._software_monitor
    faults,       \* outside failures that can happen in this run
    bridged,      \* the configuration uses a capture bridge process
    shutdownLimit, \* shutdown() calls this run explores
    client,       \* self._client: "none" or "active"
    jack_proc,    \* self._jack_proc: "none", or the child "running" / "exited"
    zita_proc,    \* the capture bridge child: "none" or "running"
    signals,      \* history: <<child, signal>> pairs sent by shutdown()
    startResult,  \* how start() ended: "none", "returned", "raised"
    probeResult,  \* how _wait_for_jack() went: "none", "ready", "timeout"
    connectResult, \* how _connect_ports() went: "none", "ok", "failed"
    shutdownResult, \* how the last shutdown() ended and what it met
    shutdownCalls, \* shutdown() calls so far
    monitor_muted, \* self._monitor_muted: "absent", "muted", "unmuted"
    muteRequested, \* history: mute_monitor() was called last, not unmute_monitor()
    monitor_L,    \* last block written to the monitor_L port
    monitor_R,    \* last block written to the monitor_R port
    pushedVals,   \* history: the int16 values pushed so far
    utterances,   \* utterances this run explores
    ttsBudget,    \* injector callback invocations explored per utterance
    spoken,       \* speak() calls so far
    tts_queue,    \* texts waiting in the TTS queue
    wpc,          \* position of the TTS worker thread
    audio_len,    \* len(audio_data): the synthesized, then the resampled buffer
    pos,          \* play_buffer: pos
    done_event,   \* play_buffer: done_event
    tts_client,   \* the injection client: none / open / active / inactive / closed
    out_L,        \* last block written to the injector's out_L port
    out_R,        \* last block written to the injector's out_R port
    ttsCalls,     \* tts_callback invocations of the current utterance
    ttsDoneAt,    \* history: the invocation that first set done_event (0: none)
    emitted,      \* history: buffer samples written to out_L so far, in order
    playResult,   \* how the last play_buffer() ended: none / returned / raised
    playTicks,    \* polling intervals (0.1 s) the completion wait has lasted
    ticksAfterStop, \* history: those of them that began with the running flag cleared
    wet,          \* SchroederReverb.wet, in hundredths
    combs,        \* SchroederReverb._combs: the filter state zi of each comb
    allpasses,    \* SchroederReverb._allpasses: the filter state zi of each allpass
    reverbBudget, \* process() calls this run explores
    rv_hist,      \* history: <<input block, output block>> of every process() call
    sm_state,     \* StateMachine.state
    sm_previous,  \* StateMachine._previous
    sm_callbacks, \* states that have an on_enter callback registered
    sm_pc,        \* per thread: "idle", or "fire" between the lock release and the callbacks
    sm_arg,       \* per thread: new_state of the transition() call under way
    sm_last,      \* the last call that ran its locked block: thread, op, arg, result
    sm_calls,     \* calls so far
    smBudget,     \* calls this run explores
    sm_fired,     \* history: the states whose callbacks were fired, in order
    sm_trace,     \* history: every value StateMachine.state has had, in order
    sq_queue,     \* SongQueue._queue
    sq_last,      \* the last SongQueue call: thread, op, result
    sq_added,     \* history: the songs added, in order
    sq_removed,   \* history: the songs next() returned, in order
    sqBudget,     \* SongQueue calls this run explores
    sq_calls,     \* SongQueue calls so far
    sq_lock,      \* SongQueue._lock: "free" or the thread holding it
    sq_pc,        \* per thread: the SongQueue method it is in, and its argument
    vol_pc,       \* per thread: the volume method it is in, the volume it read, and
                  \* whether no other call has overlapped this one
    volume,       \* Player._volume
    mpv_volume,   \* the volume property last delivered to mpv
    vol_last,     \* the last volume call: op and the volume before it
    vol_calls,    \* volume calls so far
    volBudget,    \* volume calls this run explores
    songs,        \* SongCache: the rows of the songs table, by youtube_id
    song_dirs,    \* SongCache: size of each song directory on disk
    max_bytes,    \* SongCache.max_bytes
    clock,        \* time.time()
    cache_last,   \* the last SongCache call: op, youtube_id, size
    cache_evicted, \* history: the rows the last add() evicted, in order
    cache_calls,  \* SongCache calls so far
    cacheBudget,  \* SongCache calls this run explores
    st_pc,        \* start(): number of its statements completed
    st_status,    \* start(): "new", "running", "returned" or "raised"
    st_log,       \* history: the statements of start() that took effect, in order
    st_probes,    \* _wait_for_jack(): probe attempts that failed
    st_cbRuns,    \* process callbacks the server has invoked on the new client
    st_faults,    \* the statements of start() that raise in this run
    dl_d,         \* SchroederReverb.__init__: a delay given for 44100 Hz
    dl_rate,      \* SchroederReverb.__init__: rate
    dl_out,       \* the delay length computed from them, once computed
    sp_pc,        \* per thread: where it is in speak(), and the text it speaks
    sp_lock,      \* tts._start_lock: "free" or the thread holding it
    sp_started,   \* tts._started
    sp_workers,   \* the worker threads started, named after the thread that started them
    sp_queue,     \* tts._queue
    sp_wpc,       \* per worker: where it is in _worker(), and the text it handles
    sp_muted,     \* the engine's _monitor_muted (software mode)
    sp_enq,       \* history: the texts put in the queue, in order
    sp_taken,     \* history: the texts the workers took, in order
    sp_calls,     \* speak() calls so far
    spBudget,     \* speak() calls this run explores
    kj_pc,        \* per thread of main.py: the statement it is at, and its local `song`
    kj_cmds,      \* _wait_and_process threads started and not finished
    kj_recording, \* Karaoke._recording
    kj_playing,   \* the song the player is playing, or "none"
    kj_played,    \* history: the songs given to player.play(), in order
    kj_errors,    \* history: the ValueErrors that escaped, with the thread and its song
    kj_events,    \* key presses and wake words handled so far
    kjBudget      \* key presses and wake words this run explores

vars == <<running, phase, total, ds_buf, frame_buf, frame_event, lock, cbpc,
          cb_data, cbCount, budget, consumers, pc, acc, ret, waited, waitsAfterStop,
          calledRunning, pushed, delivered, amp, software_monitor, faults,
          bridged, shutdownLimit, client, jack_proc, zita_proc, signals,
          startResult, probeResult, connectResult, shutdownResult, shutdownCalls,
          monitor_muted, muteRequested, monitor_L, monitor_R, pushedVals,
          utterances, ttsBudget, spoken, tts_queue, wpc, audio_len, pos, done_event,
          tts_client, out_L, out_R, ttsCalls, ttsDoneAt, emitted, playResult,
          playTicks, ticksAfterStop, wet, combs, allpasses, reverbBudget, rv_hist,
          sm_state, sm_previous, sm_callbacks, sm_pc, sm_arg, sm_last, sm_calls,
          smBudget, sm_fired, sm_trace, sq_queue, sq_last, sq_added, sq_removed,
          sqBudget, sq_calls, sq_lock, sq_pc, vol_pc, volume, mpv_volume, vol_last, vol_calls, volBudget,
          songs, song_dirs, max_bytes, clock, cache_last, cache_evicted, cache_calls,
          cacheBudget,
          st_pc, st_status, st_log, st_probes, st_cbRuns, st_faults,
          dl_d, dl_rate, dl_out, sp_pc, sp_lock, sp_started, sp_workers, sp_queue,
          sp_wpc, sp_muted, sp_enq, sp_taken, sp_calls, spBudget, kj_pc, kj_cmds,
          kj_recording, kj_playing, kj_played, kj_errors, kj_events, kjBudget>>

engineVars == <<running, phase>>
cbVars == <<total, ds_buf, cbpc, cb_data, cbCount, pushed, pushedVals>>
consVars == <<pc, acc, ret, waited, waitsAfterStop, calledRunning, delivered>>
envVars == <<amp, software_monitor, faults, bridged, shutdownLimit>>
lifeVars == <<client, jack_proc, zita_proc, signals, startResult, probeResult, connectResult,
              shutdownResult, shutdownCalls>>
monVars == <<monitor_muted, muteRequested, monitor_L, monitor_R>>
frameVars == <<frame_buf, frame_event, lock, budget, consumers>>
playVars == <<audio_len, pos, done_event, tts_client, out_L, out_R, ttsCalls, ttsDoneAt,
              emitted, playResult, playTicks, ticksAfterStop>>
ttsVars == <<utterances, ttsBudget, spoken, tts_queue, wpc, playVars>>
audioVars == <<engineVars, frameVars, cbVars, consVars, envVars, lifeVars, monVars, ttsVars>>
reverbVars == <<wet, combs, allpasses, reverbBudget, rv_hist>>
smVars == <<sm_state, sm_previous, sm_callbacks, sm_pc, sm_arg, sm_last, sm_calls,
            smBudget, sm_fired, sm_trace>>
sqVars == <<sq_queue, sq_last, sq_added, sq_removed, sqBudget, sq_calls, sq_lock, sq_pc>>
volVars == <<volume, mpv_volume, vol_last, vol_calls, volBudget, vol_pc>>
cacheVars == <<songs, song_dirs, max_bytes, clock, cache_last, cache_evicted, cache_calls,
               cacheBudget>>
startVars == <<st_pc, st_status, st_log, st_probes, st_cbRuns, st_faults>>
delayVars == <<dl_d, dl_rate, dl_out>>
speakVars == <<sp_pc, sp_lock, sp_started, sp_workers, sp_queue, sp_wpc, sp_muted,
               sp_enq, sp_taken, sp_calls, spBudget>>
kjVars == <<kj_pc, kj_cmds, kj_recording, kj_playing, kj_played, kj_errors, kj_events,
            kjBudget>>
mainVars == <<startVars, delayVars, speakVars, kjVars>>
appVars == <<reverbVars, smVars, sqVars, volVars, cacheVars, mainVars>>

\* ------------------------------------------------------------------------
\* numpy arrays of stream positions
\* ------------------------------------------------------------------------
Mk(lo, n, st) == <<lo, n, IF n = 1 THEN 0 ELSE st>>

Empty == <<>>

RunLast(r) == r[1] + (r[2] - 1) * r[3]

RECURSIVE ALen(_)
ALen(a) == IF a = <<>> THEN 0 ELSE Head(a)[2] + ALen(Tail(a))

\* np.append / np.concatenate of two arrays
Concat(a, b) ==
    IF a = <<>> THEN b
    ELSE IF b = <<>> THEN a
    ELSE LET ra == a[Len(a)]
             rb == b[1]
             d  == rb[1] - RunLast(ra)
         IN IF d > 0 /\ (ra[2] = 1 \/ ra[3] = d) /\ (rb[2] = 1 \/ rb[3] = d)
            THEN SubSeq(a, 1, Len(a) - 1) \o <<Mk(ra[1], ra[2] + rb[2], d)>> \o Tail(b)
            ELSE a \o b

\* a[:k]
RECURSIVE Take(_, _)
Take(a, k) ==
    IF k <= 0 \/ a = <<>> THEN <<>>
    ELSE LET r == Head(a)
         IN IF r[2] <= k THEN <<r>> \o Take(Tail(a), k - r[2])
            ELSE <<Mk(r[1], k, r[3])>>

\* a[k:]
RECURSIVE Drop(_, _)
Drop(a, k) ==
    IF k <= 0 \/ a = <<>> THEN a
    ELSE LET r == Head(a)
         IN IF r[2] <= k THEN Drop(Tail(a), k - r[2])
            ELSE <<Mk(r[1] + k * r[3], r[2] - k, r[3])>> \o Tail(a)

\* a[off::3]
RECURSIVE Stride(_, _)
Stride(a, off) ==
    IF a = <<>> THEN <<>>
    ELSE LET r == Head(a)
             n == r[2]
         IN IF n <= off THEN Stride(Tail(a), off - n)
            ELSE LET cnt == (n - off + 2) \div 3
                     nxt == off + 3 * cnt - n
                 IN Concat(<<Mk(r[1] + off * r[3], cnt, 3 * r[3])>>,
                           Stride(Tail(a), nxt))

\* np.concatenate of a list of arrays
RECURSIVE Flatten(_)
Flatten(buf) == IF buf = <<>> THEN <<>> ELSE Concat(Head(buf), Flatten(Tail(buf)))

\* the set of positions a run holds
RunElems(r) == {r[1] + k * r[3] : k \in 0..(r[2] - 1)}

\* a is the decimated stream from decimated index `from` on: 3*from, 3*from+3, ...
RECURSIVE IsStreamFrom(_, _)
IsStreamFrom(a, from) ==
    IF a = <<>> THEN TRUE
    ELSE LET r == Head(a)
         IN /\ r[1] = 3 * from
            /\ (r[2] = 1 \/ r[3] = 3)
            /\ IsStreamFrom(Tail(a), from + r[2])

\* ------------------------------------------------------------------------
\* return values of get_frame
\* ------------------------------------------------------------------------
Unset == [kind |-> "unset", data |-> <<>>]
None == [kind |-> "none", data |-> <<>>]
Frame(a) == [kind |-> "frame", data |-> a]

\* ------------------------------------------------------------------------
\* initial state: JackAudioEngine.__init__
\* ------------------------------------------------------------------------
InitWith(cs, b) ==
    /\ running = FALSE
    /\ phase = "new"
    /\ total = 0
    /\ ds_buf = Empty
    /\ frame_buf = <<>>
    /\ frame_event = FALSE
    /\ lock = "none"
    /\ cbpc = "idle"
    /\ cb_data = Empty
    /\ cbCount = 0
    /\ budget = b
    /\ consumers = cs
    /\ pc = [c \in MultiConsumers |-> "idle"]
    /\ acc = [c \in MultiConsumers |-> Empty]
    /\ ret = [c \in MultiConsumers |-> Unset]
    /\ waited = [c \in MultiConsumers |-> FALSE]
    /\ waitsAfterStop = [c \in MultiConsumers |-> 0]
    /\ calledRunning = [c \in MultiConsumers |-> FALSE]
    /\ pushed = Empty
    /\ delivered = Empty
    /\ pushedVals = {}

\* blocks on a monitor port
Unwritten == [kind |-> "unwritten", n |-> 0, gain |-> 0, amp |-> 0]
Zeros(n) == [kind |-> "zeros", n |-> n, gain |-> 0, amp |-> 0]
Wet(n, g, a) == [kind |-> "wet", n |-> n, gain |-> g, amp |-> a]

\* outcome record of shutdown()
NotShutDown == [status |-> "none", deactivate |-> "none", terminate |-> "none", kill |-> "none"]

\* the configuration and surroundings of a run, and the fields __init__ sets
\* from them (lines 99-117)
InitEnv(amps, modes, fs, bridges, limit) ==
    /\ amp \in amps
    /\ software_monitor \in modes
    /\ faults = fs
    /\ bridged \in bridges
    /\ shutdownLimit = limit
    /\ client = "none"
    /\ jack_proc = "none"
    /\ zita_proc = "none"
    /\ signals = {}
    /\ startResult = "none"
    /\ probeResult = "none"
    /\ connectResult = "none"
    /\ shutdownResult = NotShutDown
    /\ shutdownCalls = 0
    /\ monitor_muted = IF software_monitor THEN "unmuted" ELSE "absent"
    /\ muteRequested = FALSE
    /\ monitor_L = Unwritten
    /\ monitor_R = Unwritten

\* a block on an injector port: n buffer samples from index lo, then pad zeros
Block(lo, n, pad) == [lo |-> lo, n |-> n, pad |-> pad]

\* voice/tts.py module state and the locals of play_buffer() before any call
InitTts(u, b) ==
    /\ utterances = u
    /\ ttsBudget = b
    /\ spoken = 0
    /\ tts_queue = 0
    /\ wpc = "idle"
    /\ audio_len = 0
    /\ pos = 0
    /\ done_event = FALSE
    /\ tts_client = "none"
    /\ out_L = Block(0, 0, 0)
    /\ out_R = Block(0, 0, 0)
    /\ ttsCalls = 0
    /\ ttsDoneAt = 0
    /\ emitted = Empty
    /\ playResult = "none"
    /\ playTicks = 0
    /\ ticksAfterStop = 0

\* faulty variant of DelayAt: rounds to the nearest length
DelayAt_Nearest(d, rate) == (2 * d * rate + REVERB_BASE_RATE) \div (2 * REVERB_BASE_RATE)

\* int(d * rate / 44100): the fraction is cut off
DelayAt(d, rate) == (d * rate) \div REVERB_BASE_RATE

\* the delay lengths of the instance the reverb claims are checked on
ScaledDelay(d) == DelayAt(d, ReverbRate)
comb_delays == [i \in 1..Len(comb_base_delays) |-> ScaledDelay(comb_base_delays[i])]
ap_delays == [i \in 1..Len(ap_base_delays) |-> ScaledDelay(ap_base_delays[i])]

\* zi = np.zeros(d)
ZeroState(d) == [k \in 1..d |-> 0]

\* SchroederReverb.__init__, lines 24-67
InitReverb(wets, calls) ==
    /\ wet \in wets
    /\ combs = [i \in 1..Len(comb_delays) |-> ZeroState(comb_delays[i])]
    /\ allpasses = [i \in 1..Len(ap_delays) |-> ZeroState(ap_delays[i])]
    /\ reverbBudget = calls
    /\ rv_hist = <<>>

\* no StateMachine call has run yet
NoSmCall == [thread |-> "none", op |-> "none", arg |-> IDLE, result |-> "none"]

\* StateMachine.__init__, with the on_enter registrations of the run
InitSm(cbs, b) ==
    /\ sm_state = IDLE
    /\ sm_previous = IDLE
    /\ sm_callbacks \in cbs
    /\ sm_pc = [t \in SmThreads |-> "idle"]
    /\ sm_arg = [t \in SmThreads |-> IDLE]
    /\ sm_last = NoSmCall
    /\ sm_calls = 0
    /\ smBudget = b
    /\ sm_fired = <<>>
    /\ sm_trace = <<IDLE>>

\* no SongQueue call has returned yet; a thread outside the queue's methods
NoSqCall == [thread |-> "none", op |-> "none", arg |-> "none", result |-> <<>>, flag |-> FALSE]
SqIdle == [op |-> "idle", arg |-> "none"]

\* SongQueue.__init__: an empty deque and a free lock
InitSq(b) ==
    /\ sq_queue = <<>>
    /\ sq_last = NoSqCall
    /\ sq_added = <<>>
    /\ sq_removed = <<>>
    /\ sq_calls = 0
    /\ sq_lock = "free"
    /\ sq_pc = [t \in SqThreads |-> SqIdle]
    /\ sqBudget = b

\* a thread outside volume_up() and volume_down()
VolIdle == [op |-> "idle", read |-> 0, alone |-> TRUE]

\* Player.__init__: self._volume = 100; nothing sent to the player yet
InitVol(b) ==
    /\ volume = INITIAL_VOLUME
    /\ mpv_volume = INITIAL_VOLUME
    /\ vol_last = [thread |-> "none", op |-> "none", read |-> INITIAL_VOLUME, sent |-> FALSE]
    /\ vol_pc = [t \in VolThreads |-> VolIdle]
    /\ vol_calls = 0
    /\ volBudget = b

\* SongCache.__init__: an empty songs table and a size limit
InitCache(limits, b) ==
    /\ songs = {}
    /\ song_dirs = {}
    /\ max_bytes \in limits
    /\ clock = 0
    /\ cache_last = [op |-> "none", youtube_id |-> "none", before |-> {}]
    /\ cache_evicted = <<>>
    /\ cache_calls = 0
    /\ cacheBudget = b

\* start() in a run: not called ("off") or about to be called ("new"), with
\* the statements that will raise
InitStart(statuses, fs) ==
    /\ st_status \in statuses
    /\ st_faults \in fs
    /\ st_pc = 0
    /\ st_log = <<>>
    /\ st_probes = 0
    /\ st_cbRuns = 0

\* the delay computation of SchroederReverb.__init__ for one delay and rate
InitDelay(ds, rates) ==
    /\ dl_d \in ds
    /\ dl_rate \in rates
    /\ dl_out = <<>>

\* a thread outside speak(); a worker thread that does not exist
SpIdle == [at |-> "idle", text |-> "none"]

\* voice/tts.py module state, lines 12-14: nothing queued, no worker
InitSpeak(b) ==
    /\ sp_pc = [t \in SpThreads |-> SpIdle]
    /\ sp_lock = "free"
    /\ sp_started = FALSE
    /\ sp_workers = {}
    /\ sp_queue = <<>>
    /\ sp_wpc = [w \in SpThreads |-> SpIdle]
    /\ sp_muted = FALSE
    /\ sp_enq = <<>>
    /\ sp_taken = <<>>
    /\ sp_calls = 0
    /\ spBudget = b

\* a thread of main.py at the given statement, with its local song
KjAt(at, song) == [at |-> at, song |-> song]

\* Karaoke.__init__ and run(): the keyboard thread waits for keys, the mic
\* loop for frames; no checker thread, no song playing
InitKj(b) ==
    /\ kj_pc = [t \in KjThreads |-> KjAt("idle", "none")]
    /\ kj_cmds = 0
    /\ kj_recording = FALSE
    /\ kj_playing = "none"
    /\ kj_played = <<>>
    /\ kj_errors = {}
    /\ kj_events = 0
    /\ kjBudget = b

InitMainIdle ==
    /\ InitStart({"off"}, {{}})
    /\ InitDelay({0}, {0})
    /\ InitSpeak(0)
    /\ InitKj(0)

\* the parts outside the audio engine, not exercised
InitAppIdle ==
    /\ InitReverb({0}, 0)
    /\ InitSm({{}}, 0)
    /\ InitSq(0)
    /\ InitVol(0)
    /\ InitCache({0}, 0)
    /\ InitMainIdle

\* the audio engine and the speech output, not exercised
InitAudioIdle ==
    /\ InitWith({}, 0)
    /\ InitEnv({HalfAmplitude}, {FALSE}, {}, {FALSE}, 0)
    /\ InitTts(0, 0)

\* hardware monitoring, a half-scale signal, nothing fails, one shutdown()
\* call, nothing spoken
InitPlain ==
    /\ InitEnv({HalfAmplitude}, {FALSE}, {}, {FALSE}, 1)
    /\ InitTts(0, 0)
    /\ InitAppIdle

Init == InitWith(SingleConsumer, MaxCallbacks) /\ InitPlain

InitMulti == InitWith(MultiConsumers, MaxCallbacksMulti) /\ InitPlain

InitFair == InitWith(SingleConsumer, MaxCallbacksFair) /\ InitPlain

\* ------------------------------------------------------------------------
\* engine life cycle: start(), _wait_for_jack(), _shutdown_callback(), shutdown()
\* ------------------------------------------------------------------------
\* start(): self._running = True, then jackd is spawned and probed
StartBegin ==
    /\ phase = "new"
    /\ running' = TRUE
    /\ phase' = "probing"
    /\ jack_proc' = "running"
    /\ UNCHANGED <<client, zita_proc, signals, startResult, probeResult,
                   connectResult, shutdownResult, shutdownCalls>>
    /\ UNCHANGED <<frameVars, cbVars, consVars, envVars, monVars>>
    /\ UNCHANGED ttsVars
    /\ UNCHANGED appVars

\* _wait_for_jack() succeeds; _start_client() creates and activates the
\* client and stores it in self._client
ProbeReady ==
    /\ phase = "probing"
    /\ phase' = "connecting"
    /\ probeResult' = "ready"
    /\ client' = "active"
    /\ UNCHANGED <<jack_proc, zita_proc, signals, startResult,
                   connectResult, shutdownResult, shutdownCalls>>
    /\ UNCHANGED <<running, frameVars, cbVars, consVars, envVars, monVars>>
    /\ UNCHANGED ttsVars
    /\ UNCHANGED appVars

\* faulty variant of ProbeTimeout: the deadline is ignored and the client is
\* created all the same
ProbeTimeout_Swallowed ==
    /\ phase = "probing"
    /\ phase' = "connecting"
    /\ probeResult' = "timeout"
    /\ client' = "active"
    /\ UNCHANGED <<jack_proc, zita_proc, signals, startResult,
                   connectResult, shutdownResult, shutdownCalls>>
    /\ UNCHANGED <<running, frameVars, cbVars, consVars, envVars, monVars>>
    /\ UNCHANGED ttsVars
    /\ UNCHANGED appVars

\* _wait_for_jack() raises RuntimeError at the deadline; start() propagates it
ProbeTimeout ==
    /\ phase = "probing"
    /\ phase' = "failed"
    /\ startResult' = "raised"
    /\ probeResult' = "timeout"
    /\ UNCHANGED <<client, jack_proc, zita_proc, signals, connectResult,
                   shutdownResult, shutdownCalls>>
    /\ UNCHANGED <<running, frameVars, cbVars, consVars, envVars, monVars>>
    /\ UNCHANGED ttsVars
    /\ UNCHANGED appVars

\* the capture bridge is launched once the server is live
StartZita ==
    /\ bridged
    /\ phase = "connecting"
    /\ zita_proc = "none"
    /\ zita_proc' = "running"
    /\ UNCHANGED <<client, jack_proc, signals, startResult, probeResult,
                   connectResult, shutdownResult, shutdownCalls>>
    /\ UNCHANGED <<engineVars, frameVars, cbVars, consVars, envVars, monVars>>
    /\ UNCHANGED ttsVars
    /\ UNCHANGED appVars

\* what the connect calls of _connect_ports() can do in this run
ConnectOutcomes == {"ok"} \cup (IF "connect_fails" \in faults THEN {"failed"} ELSE {})

\* faulty variant of ConnectDone: a connection error escapes start()
ConnectDone_Fatal(o) ==
    /\ phase' = IF o = "ok" THEN "active" ELSE "failed"
    /\ startResult' = IF o = "ok" THEN "returned" ELSE "raised"

\* _connect_ports() catches every Exception and prints a warning; start()
\* goes on to return
ConnectDone(o) ==
    /\ phase' = "active"
    /\ startResult' = "returned"

\* _connect_ports(), the end of _start_client() and of start()
ConnectPorts ==
    /\ phase = "connecting"
    /\ \E o \in ConnectOutcomes :
         /\ connectResult' = o
         /\ ConnectDone(o)
    /\ UNCHANGED <<client, jack_proc, zita_proc, signals, probeResult, shutdownResult,
                   shutdownCalls>>
    /\ UNCHANGED <<running, frameVars, cbVars, consVars, envVars, monVars>>
    /\ UNCHANGED ttsVars
    /\ UNCHANGED appVars

\* _shutdown_callback(): the server went away
ShutdownCallback ==
    /\ phase = "active"
    /\ running' = FALSE
    /\ phase' = "lost"
    /\ jack_proc' = "exited"
    /\ UNCHANGED <<client, zita_proc, signals, startResult, probeResult,
                   connectResult, shutdownResult, shutdownCalls>>
    /\ UNCHANGED <<frameVars, cbVars, consVars, envVars, monVars>>
    /\ UNCHANGED ttsVars
    /\ UNCHANGED appVars

\* what client.deactivate() / client.close() can do in this run
DeactivateOutcomes ==
    {"ok"} \cup (IF "deactivate_raises" \in faults THEN {"raises"} ELSE {})

\* what terminate() followed by wait(timeout=3) can do in this run
TerminateOutcomes ==
    {"exits"} \cup (IF "grace_timeout" \in faults THEN {"timeout"} ELSE {})
              \cup (IF "terminate_raises" \in faults THEN {"raises"} ELSE {})

\* what kill() can do in this run
KillOutcomes == {"ok"} \cup (IF "kill_raises" \in faults THEN {"raises"} ELSE {})

\* lines 338-344: self._jack_proc after the child part of shutdown(), or
\* "raised" standing for an exception that left the field as it was
JackProcAfter(t, k) ==
    IF t = "exits" THEN "none"
    ELSE IF t = "timeout" /\ k = "ok" THEN "none"
    ELSE "raised"

\* signals the child part of shutdown() has delivered
SignalsSent(t, k) ==
    IF t = "exits" THEN {<<"jackd", "terminate">>}
    ELSE IF t = "timeout" /\ k = "ok" THEN {<<"jackd", "terminate">>, <<"jackd", "kill">>}
    ELSE IF t = "timeout" THEN {<<"jackd", "terminate">>}
    ELSE {}

\* shutdown(), lines 329-346
Shutdown ==
    /\ phase \in {"active", "failed", "lost", "stopped"}
    /\ shutdownCalls < shutdownLimit
    /\ shutdownCalls' = shutdownCalls + 1
    /\ running' = FALSE
    /\ phase' = "stopped"
    /\ client' = "none"
    /\ \E d \in DeactivateOutcomes, t \in TerminateOutcomes, k \in KillOutcomes :
         IF jack_proc = "running"
         THEN /\ jack_proc' = IF JackProcAfter(t, k) = "raised" THEN jack_proc ELSE "none"
              /\ signals' = signals \cup SignalsSent(t, k)
              /\ shutdownResult' =
                     [status |-> IF JackProcAfter(t, k) = "raised" THEN "raised" ELSE "returned",
                      deactivate |-> IF client = "none" THEN "none" ELSE d,
                      terminate |-> t,
                      kill |-> IF t = "timeout" THEN k ELSE "none"]
         ELSE /\ jack_proc' = "none"
              /\ signals' = signals
              /\ shutdownResult' =
                     [status |-> "returned",
                      deactivate |-> IF client = "none" THEN "none" ELSE d,
                      terminate |-> "none",
                      kill |-> "none"]
    /\ UNCHANGED <<zita_proc, startResult, probeResult, connectResult>>
    /\ UNCHANGED <<frameVars, cbVars, consVars, envVars, monVars>>
    /\ UNCHANGED ttsVars
    /\ UNCHANGED appVars

\* ------------------------------------------------------------------------
\* _process_callback: decimator and push
\* ------------------------------------------------------------------------
\* faulty variant of MicBlock: while the monitor is muted the captured
\* block does not reach the decimator
MicBlock_MutedEmpty(n) == IF monitor_muted = "muted" THEN Empty ELSE <<Mk(total, n, 1)>>

\* mic_data: the next n native-rate samples of the capture stream
MicBlock(n) == <<Mk(total, n, 1)>>

\* faulty variant of NOut: rounds to nearest instead of flooring
NOut_Rounded(ds) == (ALen(ds) + 1) \div 3

\* n_out = len(self._ds_buf) // 3
NOut(ds) == ALen(ds) \div 3

\* faulty variant of Downsampled: the slice starts one sample late
Downsampled_Late(ds, n_out) == Stride(Take(ds, n_out * 3), 1)

\* downsampled = self._ds_buf[:n_out * 3:3]
Downsampled(ds, n_out) == Stride(Take(ds, n_out * 3), 0)

\* faulty variant of Carry: the remainder is thrown away
Carry_Dropped(ds, n_out) == Empty

\* self._ds_buf = self._ds_buf[n_out * 3:]
Carry(ds, n_out) == Drop(ds, n_out * 3)

\* faulty variant of MonitorBlock: the muted flag is ignored
MonitorBlock_IgnoreMute(n) == Wet(n, MIC_GAIN, amp)

\* lines 208-216: the block written to each monitor port in software mode:
\* reverb(mic_data * gain), or zeros while muted
MonitorBlock(n) ==
    IF monitor_muted # "muted" THEN Wet(n, MIC_GAIN, amp) ELSE Zeros(n)

\* x / d truncated toward zero, as astype(np.int16) does to a float
TruncDiv(x, d) == IF x >= 0 THEN x \div d ELSE -((-x) \div d)

\* np.clip(v, lo, hi) on a value with denominator AmpDen
Clip(x, lo, hi) == IF x < lo * AmpDen THEN lo * AmpDen ELSE IF x > hi * AmpDen THEN hi * AmpDen ELSE x

\* faulty variant of Int16Of: rounds half up instead of truncating
Int16Of_Rounded(a) ==
    LET x == 2 * Clip(a * INT16_SCALE, INT16_MIN, INT16_MAX) + AmpDen
    IN  x \div (2 * AmpDen)

\* line 225: np.clip(x * 32767, -32768, 32767).astype(np.int16) of a sample
\* of amplitude a / AmpDen
Int16Of(a) == TruncDiv(Clip(a * INT16_SCALE, INT16_MIN, INT16_MAX), AmpDen)

\* lines 204-225: everything the callback does before taking the frame lock
CallbackBegin(n) ==
    /\ phase \in {"connecting", "active"}
    /\ client = "active"
    /\ cbpc = "idle"
    /\ cbCount < budget
    /\ cbCount' = cbCount + 1
    /\ total' = total + n
    /\ IF software_monitor
       THEN /\ monitor_L' = MonitorBlock(n)
            /\ monitor_R' = MonitorBlock(n)
       ELSE UNCHANGED <<monitor_L, monitor_R>>
    /\ LET ds == Concat(ds_buf, MicBlock(n))
           n_out == NOut(ds)
       IN IF n_out > 0
          THEN /\ ds_buf' = Carry(ds, n_out)
               /\ cb_data' = Downsampled(ds, n_out)
               /\ cbpc' = "lock"
          ELSE /\ ds_buf' = ds
               /\ cb_data' = Empty
               /\ cbpc' = "idle"
    /\ UNCHANGED <<frame_buf, frame_event, lock, budget, consumers, pushed, pushedVals>>
    /\ UNCHANGED <<engineVars, consVars, envVars, lifeVars, monitor_muted, muteRequested>>
    /\ UNCHANGED ttsVars
    /\ UNCHANGED appVars

\* with self._frame_lock:
CallbackAcquire ==
    /\ cbpc = "lock"
    /\ lock = "none"
    /\ lock' = "cb"
    /\ cbpc' = "push"
    /\ UNCHANGED <<frame_buf, frame_event, budget, consumers, total, ds_buf, cb_data, cbCount,
                   pushed, pushedVals>>
    /\ UNCHANGED <<engineVars, consVars, envVars, lifeVars, monVars>>
    /\ UNCHANGED ttsVars
    /\ UNCHANGED appVars

\* faulty variant of Pushed: a chunk that would overflow a capacity is dropped
Pushed_Capped(buf, data) ==
    IF ALen(Flatten(buf)) + ALen(data) > CapacityProbe * FRAME_SIZE THEN buf ELSE Append(buf, data)

\* self._frame_buf.append(int16_data)
Pushed(buf, data) == Append(buf, data)

\* append, self._frame_event.set(), release the lock
CallbackPush ==
    /\ cbpc = "push"
    /\ lock = "cb"
    /\ frame_buf' = Pushed(frame_buf, cb_data)
    /\ frame_event' = TRUE
    /\ lock' = "none"
    /\ cbpc' = "idle"
    /\ cb_data' = Empty
    /\ pushed' = Concat(pushed, cb_data)
    /\ pushedVals' = pushedVals \cup {Int16Of(amp)}
    /\ UNCHANGED <<budget, consumers, total, ds_buf, cbCount>>
    /\ UNCHANGED <<engineVars, consVars, envVars, lifeVars, monVars>>
    /\ UNCHANGED ttsVars
    /\ UNCHANGED appVars

\* faulty variant of Mute: the flag is set in either mode
Mute_Unconditional ==
    /\ muteRequested' = TRUE
    /\ monitor_muted' = "muted"
    /\ UNCHANGED <<monitor_L, monitor_R>>

\* the body of mute_monitor(), lines 257-260
Mute ==
    /\ muteRequested' = TRUE
    /\ monitor_muted' = IF software_monitor THEN "muted" ELSE monitor_muted
    /\ UNCHANGED <<monitor_L, monitor_R>>

\* the body of unmute_monitor(), lines 262-265
Unmute ==
    /\ muteRequested' = FALSE
    /\ monitor_muted' = IF software_monitor THEN "unmuted" ELSE monitor_muted
    /\ UNCHANGED <<monitor_L, monitor_R>>

\* a call of mute_monitor() from any thread
MuteMonitor ==
    /\ Mute
    /\ UNCHANGED <<engineVars, frameVars, cbVars, consVars, envVars, lifeVars>>
    /\ UNCHANGED ttsVars
    /\ UNCHANGED appVars

\* a call of unmute_monitor() from any thread
UnmuteMonitor ==
    /\ Unmute
    /\ UNCHANGED <<engineVars, frameVars, cbVars, consVars, envVars, lifeVars>>
    /\ UNCHANGED ttsVars
    /\ UNCHANGED appVars

\* ------------------------------------------------------------------------
\* get_frame
\* ------------------------------------------------------------------------
\* faulty variant of HasFrame: any gathered data counts as a frame
HasFrame_NonEmpty(a) == ALen(a) > 0

\* len(accumulated) >= FRAME_SIZE
HasFrame(a) == ALen(a) >= FRAME_SIZE

\* frame = accumulated[:FRAME_SIZE]
FrameOf(a) == Take(a, FRAME_SIZE)

\* faulty variant of RemainderOf: slice off by one
RemainderOf_OffByOne(a) == Drop(a, FRAME_SIZE + 1)

\* remainder = accumulated[FRAME_SIZE:]
RemainderOf(a) == Drop(a, FRAME_SIZE)

\* np.concatenate([accumulated] + self._frame_buf)
Drained(a, buf) == Concat(a, Flatten(buf))

\* faulty variant of BufAfterDrain: the queue is not cleared after the copy
BufAfterDrain_Keep(buf) == buf

\* self._frame_buf.clear()
BufAfterDrain(buf) == <<>>

\* faulty variant of Requeued: remainder appended at the back
Requeued_AtBack(buf, rem) == Append(buf, rem)

\* self._frame_buf.insert(0, remainder)
Requeued(buf, rem) == <<rem>> \o buf

\* faulty variant of WaitReturns: wait() without a timeout
WaitReturns_NoTimeout == frame_event

\* self._frame_event.wait(timeout=0.1) returns: the event is set or 0.1 s passed
TimeoutElapses == TRUE
WaitReturns == frame_event \/ TimeoutElapses

\* `return frame` / `return None`
Return(c, v) ==
    /\ ret' = [ret EXCEPT ![c] = v]
    /\ pc' = [pc EXCEPT ![c] = "idle"]
    /\ delivered' = IF v.kind = "frame" THEN Concat(delivered, v.data) ELSE delivered

\* faulty variant of LoopHead: `while True:`
LoopHead_NoCheck(c) ==
    /\ pc' = [pc EXCEPT ![c] = "wait"]
    /\ UNCHANGED <<ret, delivered>>

\* `while self._running:` - enter the loop body or fall through to `return None`
LoopHead(c) ==
    IF running
    THEN /\ pc' = [pc EXCEPT ![c] = "wait"]
         /\ UNCHANGED <<ret, delivered>>
    ELSE Return(c, None)

\* faulty variant of GetFrameCall: the loop body runs once before the flag is read
GetFrameCall_WaitFirst(c) ==
    /\ c \in consumers
    /\ pc[c] = "idle"
    /\ acc' = [acc EXCEPT ![c] = Empty]
    /\ waited' = [waited EXCEPT ![c] = FALSE]
    /\ waitsAfterStop' = [waitsAfterStop EXCEPT ![c] = 0]
    /\ calledRunning' = [calledRunning EXCEPT ![c] = running]
    /\ pc' = [pc EXCEPT ![c] = "wait"]
    /\ UNCHANGED <<ret, delivered>>
    /\ UNCHANGED <<frame_buf, frame_event, lock, budget, consumers>>
    /\ UNCHANGED engineVars
    /\ UNCHANGED cbVars
    /\ UNCHANGED <<envVars, lifeVars, monVars>>
    /\ UNCHANGED ttsVars
    /\ UNCHANGED appVars

\* the call: accumulated = [] and the first evaluation of the loop condition
GetFrameCall(c) ==
    /\ c \in consumers
    /\ pc[c] = "idle"
    /\ acc' = [acc EXCEPT ![c] = Empty]
    /\ waited' = [waited EXCEPT ![c] = FALSE]
    /\ waitsAfterStop' = [waitsAfterStop EXCEPT ![c] = 0]
    /\ calledRunning' = [calledRunning EXCEPT ![c] = running]
    /\ LoopHead(c)
    /\ UNCHANGED <<frame_buf, frame_event, lock, budget, consumers>>
    /\ UNCHANGED engineVars
    /\ UNCHANGED cbVars
    /\ UNCHANGED <<envVars, lifeVars, monVars>>
    /\ UNCHANGED ttsVars
    /\ UNCHANGED appVars

\* a later evaluation of `while self._running:`
WhileTest(c) ==
    /\ pc[c] = "while"
    /\ LoopHead(c)
    /\ UNCHANGED <<acc, waited, waitsAfterStop, calledRunning>>
    /\ UNCHANGED <<frame_buf, frame_event, lock, budget, consumers>>
    /\ UNCHANGED engineVars
    /\ UNCHANGED cbVars
    /\ UNCHANGED <<envVars, lifeVars, monVars>>
    /\ UNCHANGED ttsVars
    /\ UNCHANGED appVars

\* self._frame_event.wait(timeout=0.1)
Wait(c) ==
    /\ pc[c] = "wait"
    /\ WaitReturns
    /\ pc' = [pc EXCEPT ![c] = "clear"]
    /\ waited' = [waited EXCEPT ![c] = TRUE]
    /\ waitsAfterStop' = [waitsAfterStop EXCEPT ![c] =
                             IF running THEN @ ELSE IF @ < 2 THEN @ + 1 ELSE @]
    /\ UNCHANGED <<acc, ret, calledRunning, delivered>>
    /\ UNCHANGED <<frame_buf, frame_event, lock, budget, consumers>>
    /\ UNCHANGED engineVars
    /\ UNCHANGED cbVars
    /\ UNCHANGED <<envVars, lifeVars, monVars>>
    /\ UNCHANGED ttsVars
    /\ UNCHANGED appVars

\* self._frame_event.clear()
Clear(c) ==
    /\ pc[c] = "clear"
    /\ frame_event' = FALSE
    /\ pc' = [pc EXCEPT ![c] = "lockD"]
    /\ UNCHANGED <<acc, ret, waited, waitsAfterStop, calledRunning, delivered>>
    /\ UNCHANGED <<frame_buf, lock, budget, consumers>>
    /\ UNCHANGED engineVars
    /\ UNCHANGED cbVars
    /\ UNCHANGED <<envVars, lifeVars, monVars>>
    /\ UNCHANGED ttsVars
    /\ UNCHANGED appVars

\* faulty variant of DrainAcquire: the lock is taken around the event wait
DrainAcquire_HoldAcrossWait(c) ==
    /\ pc[c] = "lockD"
    /\ lock = "none"
    /\ lock' = c
    /\ pc' = [pc EXCEPT ![c] = "wait"]
    /\ UNCHANGED <<acc, ret, waited, waitsAfterStop, calledRunning, delivered>>
    /\ UNCHANGED <<frame_buf, frame_event, budget, consumers>>
    /\ UNCHANGED engineVars
    /\ UNCHANGED cbVars
    /\ UNCHANGED <<envVars, lifeVars, monVars>>
    /\ UNCHANGED ttsVars
    /\ UNCHANGED appVars

\* with self._frame_lock: (line 243)
DrainAcquire(c) ==
    /\ pc[c] = "lockD"
    /\ lock = "none"
    /\ lock' = c
    /\ pc' = [pc EXCEPT ![c] = "drain"]
    /\ UNCHANGED <<acc, ret, waited, waitsAfterStop, calledRunning, delivered>>
    /\ UNCHANGED <<frame_buf, frame_event, budget, consumers>>
    /\ UNCHANGED engineVars
    /\ UNCHANGED cbVars
    /\ UNCHANGED <<envVars, lifeVars, monVars>>
    /\ UNCHANGED ttsVars
    /\ UNCHANGED appVars

\* lines 244-251: drain under the lock, release it, then slice
Drain(c) ==
    /\ pc[c] = "drain"
    /\ lock = c
    /\ lock' = "none"
    /\ LET a == IF frame_buf # <<>> THEN Drained(acc[c], frame_buf) ELSE acc[c]
       IN /\ acc' = [acc EXCEPT ![c] = a]
          /\ frame_buf' = IF frame_buf # <<>> THEN BufAfterDrain(frame_buf) ELSE frame_buf
          /\ IF HasFrame(a)
             THEN IF ALen(RemainderOf(a)) > 0
                  THEN /\ pc' = [pc EXCEPT ![c] = "lockI"]
                       /\ UNCHANGED <<ret, delivered>>
                  ELSE Return(c, Frame(FrameOf(a)))
             ELSE /\ pc' = [pc EXCEPT ![c] = "while"]
                  /\ UNCHANGED <<ret, delivered>>
    /\ UNCHANGED <<waited, waitsAfterStop, calledRunning>>
    /\ UNCHANGED <<frame_event, budget, consumers>>
    /\ UNCHANGED engineVars
    /\ UNCHANGED cbVars
    /\ UNCHANGED <<envVars, lifeVars, monVars>>
    /\ UNCHANGED ttsVars
    /\ UNCHANGED appVars

\* with self._frame_lock: (line 252)
RequeueAcquire(c) ==
    /\ pc[c] = "lockI"
    /\ lock = "none"
    /\ lock' = c
    /\ pc' = [pc EXCEPT ![c] = "requeue"]
    /\ UNCHANGED <<acc, ret, waited, waitsAfterStop, calledRunning, delivered>>
    /\ UNCHANGED <<frame_buf, frame_event, budget, consumers>>
    /\ UNCHANGED engineVars
    /\ UNCHANGED cbVars
    /\ UNCHANGED <<envVars, lifeVars, monVars>>
    /\ UNCHANGED ttsVars
    /\ UNCHANGED appVars

\* lines 253-254: put the remainder back, release the lock, return the frame
Requeue(c) ==
    /\ pc[c] = "requeue"
    /\ lock = c
    /\ lock' = "none"
    /\ frame_buf' = Requeued(frame_buf, RemainderOf(acc[c]))
    /\ Return(c, Frame(FrameOf(acc[c])))
    /\ UNCHANGED <<acc, waited, waitsAfterStop, calledRunning>>
    /\ UNCHANGED <<frame_event, budget, consumers>>
    /\ UNCHANGED engineVars
    /\ UNCHANGED cbVars
    /\ UNCHANGED <<envVars, lifeVars, monVars>>
    /\ UNCHANGED ttsVars
    /\ UNCHANGED appVars

\* the steps of a get_frame() call that is under way
ConsumerStep(c) ==
    \/ WhileTest(c)
    \/ Wait(c)
    \/ Clear(c)
    \/ DrainAcquire(c)
    \/ Drain(c)
    \/ RequeueAcquire(c)
    \/ Requeue(c)

CallbackStep ==
    \/ CallbackAcquire
    \/ CallbackPush

Next ==
    \/ StartBegin
    \/ ProbeReady
    \/ ProbeTimeout
    \/ ConnectPorts
    \/ ShutdownCallback
    \/ Shutdown
    \/ \E n \in BlockSizes : CallbackBegin(n)
    \/ CallbackStep
    \/ \E c \in MultiConsumers : GetFrameCall(c)
    \/ \E c \in MultiConsumers : ConsumerStep(c)

Spec == Init /\ [][Next]_vars

SpecMulti == InitMulti /\ [][Next]_vars

\* threads keep being scheduled: a call under way and a callback under way
\* take their next step
FairSpec ==
    /\ InitFair
    /\ [][Next]_vars
    /\ \A c \in SingleConsumer : WF_vars(ConsumerStep(c))
    /\ WF_vars(CallbackStep)

\* the engine on its own: any configuration, any signal level, an outside
\* world that can fail, the monitor API called at any time, no consumer
InitEngine ==
    /\ InitWith({}, MaxCallbacksEngine)
    /\ InitEnv(Amplitudes, BOOLEAN, AllFaults, BOOLEAN, MaxShutdowns)
    /\ InitTts(0, 0)
    /\ InitAppIdle

NextEngine ==
    \/ StartBegin
    \/ ProbeReady
    \/ ProbeTimeout
    \/ StartZita
    \/ ConnectPorts
    \/ ShutdownCallback
    \/ Shutdown
    \/ \E n \in BlockSizes : CallbackBegin(n)
    \/ CallbackStep
    \/ MuteMonitor
    \/ UnmuteMonitor

SpecEngine == InitEngine /\ [][NextEngine]_vars

\* ------------------------------------------------------------------------
\* speech output: voice/tts.py speak(), _worker() and play_buffer()
\* ------------------------------------------------------------------------
\* the JACK server accepts clients and runs their callbacks
ServerLive == phase \in {"connecting", "active"}

\* speak(): the text is queued (the worker thread is started on first use)
Speak ==
    /\ spoken < utterances
    /\ spoken' = spoken + 1
    /\ tts_queue' = tts_queue + 1
    /\ UNCHANGED <<utterances, ttsBudget, wpc, playVars>>
    /\ UNCHANGED <<engineVars, frameVars, cbVars, consVars, envVars, lifeVars, monVars>>
    /\ UNCHANGED appVars

\* _worker(): text = _queue.get() and the synthesis; an empty result is skipped
WorkerGet ==
    /\ wpc = "idle"
    /\ tts_queue > 0
    /\ tts_queue' = tts_queue - 1
    /\ \E n \in SourceLengths :
         /\ audio_len' = n
         /\ wpc' = IF n = 0 THEN "idle" ELSE "mute"
    /\ UNCHANGED <<utterances, ttsBudget, spoken>>
    /\ UNCHANGED <<pos, done_event, tts_client, out_L, out_R, ttsCalls, ttsDoneAt, emitted, playResult,
                   playTicks, ticksAfterStop>>
    /\ UNCHANGED <<engineVars, frameVars, cbVars, consVars, envVars, lifeVars, monVars>>
    /\ UNCHANGED appVars

\* _worker(): _audio_engine.mute_monitor()
WorkerMute ==
    /\ wpc = "mute"
    /\ wpc' = "play"
    /\ Mute
    /\ UNCHANGED <<utterances, ttsBudget, spoken, tts_queue, playVars>>
    /\ UNCHANGED <<engineVars, frameVars, cbVars, consVars, envVars, lifeVars>>
    /\ UNCHANGED appVars

\* n_out = int(len(audio_data) * ratio) with ratio = JACK_RATE / source_rate
Resampled(n, rate) == IF rate # JACK_RATE THEN (n * JACK_RATE) \div rate ELSE n

\* play_buffer() up to the creation of the client: resampling, pos = 0, a
\* fresh done_event, jack.Client(..., no_start_server=True) and the two
\* ports; without a live server the constructor raises
PlayBegin ==
    /\ wpc = "play"
    /\ audio_len' = Resampled(audio_len, TTS_RATE)
    /\ pos' = 0
    /\ done_event' = FALSE
    /\ ttsCalls' = 0
    /\ ttsDoneAt' = 0
    /\ emitted' = Empty
    /\ out_L' = Block(0, 0, 0)
    /\ out_R' = Block(0, 0, 0)
    /\ playTicks' = 0
    /\ ticksAfterStop' = 0
    /\ IF ServerLive
       THEN /\ tts_client' = "open"
            /\ playResult' = "none"
            /\ wpc' = "activate"
       ELSE /\ tts_client' = "none"
            /\ playResult' = "raised"
            /\ wpc' = "unmute"
    /\ UNCHANGED <<utterances, ttsBudget, spoken, tts_queue>>
    /\ UNCHANGED <<engineVars, frameVars, cbVars, consVars, envVars, lifeVars, monVars>>
    /\ UNCHANGED appVars

\* client.set_process_callback(tts_callback); client.activate(); the port
\* connections, whose failure is ignored
PlayActivate ==
    /\ wpc = "activate"
    /\ tts_client' = "active"
    /\ wpc' = "wait"
    /\ UNCHANGED <<utterances, ttsBudget, spoken, tts_queue>>
    /\ UNCHANGED <<audio_len, pos, done_event, out_L, out_R, ttsCalls, ttsDoneAt, emitted, playResult,
                   playTicks, ticksAfterStop>>
    /\ UNCHANGED <<engineVars, frameVars, cbVars, consVars, envVars, lifeVars, monVars>>
    /\ UNCHANGED appVars

\* len(audio_data[p:p + frames])
ChunkLen(p, frames) ==
    IF p >= audio_len THEN 0
    ELSE IF p + frames > audio_len THEN audio_len - p
    ELSE frames

\* faulty variant of IsPartial: a full last slice counts as partial
IsPartial_Inclusive(n, frames) == n <= frames

\* if len(chunk) < frames:
IsPartial(n, frames) == n < frames

\* tts_callback(frames), lines 295-307, run by JACK while the client is active
TtsCallback ==
    /\ tts_client = "active"
    /\ ServerLive
    /\ ttsCalls < ttsBudget
    /\ ttsCalls' = ttsCalls + 1
    /\ LET frames == JACK_PERIOD
           n == ChunkLen(pos, frames)
       IN  /\ out_L' = Block(pos, n, frames - n)
           /\ out_R' = Block(pos, n, frames - n)
           /\ emitted' = IF n > 0 THEN Concat(emitted, <<Mk(pos, n, 1)>>) ELSE emitted
           /\ done_event' = (done_event \/ IsPartial(n, frames))
           /\ ttsDoneAt' = IF ttsDoneAt = 0 /\ IsPartial(n, frames)
                            THEN ttsCalls + 1 ELSE ttsDoneAt
           /\ pos' = pos + frames
    /\ UNCHANGED <<utterances, ttsBudget, spoken, tts_queue, wpc>>
    /\ UNCHANGED <<audio_len, tts_client, playResult, playTicks, ticksAfterStop>>
    /\ UNCHANGED <<engineVars, frameVars, cbVars, consVars, envVars, lifeVars, monVars>>
    /\ UNCHANGED appVars

\* faulty variant of DoneWaitReturns: wait() without a timeout
DoneWaitReturns_NoTimeout == done_event

\* the timeout of the completion wait, duration + 1.0 s, has passed
PlayTimeoutElapsed == playTicks >= PlayTimeoutTicks

\* done_event.wait(timeout=duration + 1.0) returns: the event is set or the
\* timeout passed
DoneWaitReturns == done_event \/ PlayTimeoutElapsed

\* done_event.wait(...) stays blocked for another polling interval: nothing
\* but the event and the timeout ends it
PlayTick ==
    /\ wpc = "wait"
    /\ ~done_event
    /\ playTicks < PlayTimeoutTicks
    /\ playTicks' = playTicks + 1
    /\ ticksAfterStop' = IF phase \in {"lost", "stopped"} THEN ticksAfterStop + 1
                         ELSE ticksAfterStop
    /\ UNCHANGED <<utterances, ttsBudget, spoken, tts_queue, wpc>>
    /\ UNCHANGED <<audio_len, pos, done_event, tts_client, out_L, out_R, ttsCalls, ttsDoneAt,
                   emitted, playResult>>
    /\ UNCHANGED <<engineVars, frameVars, cbVars, consVars, envVars, lifeVars, monVars>>
    /\ UNCHANGED appVars

\* done_event.wait(...) and the 50 ms tail
PlayWait ==
    /\ wpc = "wait"
    /\ DoneWaitReturns
    /\ wpc' = "deactivate"
    /\ UNCHANGED <<utterances, ttsBudget, spoken, tts_queue, playVars>>
    /\ UNCHANGED <<engineVars, frameVars, cbVars, consVars, envVars, lifeVars, monVars>>
    /\ UNCHANGED appVars

\* client.deactivate()
PlayDeactivate ==
    /\ wpc = "deactivate"
    /\ tts_client' = "inactive"
    /\ wpc' = "close"
    /\ UNCHANGED <<utterances, ttsBudget, spoken, tts_queue>>
    /\ UNCHANGED <<audio_len, pos, done_event, out_L, out_R, ttsCalls, ttsDoneAt, emitted, playResult,
                   playTicks, ticksAfterStop>>
    /\ UNCHANGED <<engineVars, frameVars, cbVars, consVars, envVars, lifeVars, monVars>>
    /\ UNCHANGED appVars

\* client.close() and the return of play_buffer()
PlayClose ==
    /\ wpc = "close"
    /\ tts_client' = "closed"
    /\ playResult' = "returned"
    /\ wpc' = "unmute"
    /\ UNCHANGED <<utterances, ttsBudget, spoken, tts_queue>>
    /\ UNCHANGED <<audio_len, pos, done_event, out_L, out_R, ttsCalls, ttsDoneAt, emitted,
                   playTicks, ticksAfterStop>>
    /\ UNCHANGED <<engineVars, frameVars, cbVars, consVars, envVars, lifeVars, monVars>>
    /\ UNCHANGED appVars

\* faulty variant of UnmuteAfterPlay: unmute only after a normal return
UnmuteAfterPlay_NoFinally ==
    IF playResult = "returned"
    THEN Unmute
    ELSE UNCHANGED monVars

\* finally: _audio_engine.unmute_monitor()
UnmuteAfterPlay == Unmute

\* _worker(): the finally clause after play_buffer(), then back to _queue.get()
WorkerUnmute ==
    /\ wpc = "unmute"
    /\ wpc' = "idle"
    /\ UnmuteAfterPlay
    /\ UNCHANGED <<utterances, ttsBudget, spoken, tts_queue, playVars>>
    /\ UNCHANGED <<engineVars, frameVars, cbVars, consVars, envVars, lifeVars>>
    /\ UNCHANGED appVars

\* the steps of the worker thread
WorkerStep ==
    \/ WorkerGet
    \/ WorkerMute
    \/ PlayBegin
    \/ PlayActivate
    \/ PlayTick
    \/ PlayWait
    \/ PlayDeactivate
    \/ PlayClose
    \/ WorkerUnmute

\* the engine with the speech output: either monitor mode, nothing fails
\* but the server may be absent or go away
InitSpeech ==
    /\ InitWith({}, 0)
    /\ InitEnv({HalfAmplitude}, BOOLEAN, {}, {FALSE}, 1)
    /\ InitTts(MaxUtterances, MaxTtsCalls)
    /\ InitAppIdle

NextSpeech ==
    \/ StartBegin
    \/ ProbeReady
    \/ ProbeTimeout
    \/ ConnectPorts
    \/ ShutdownCallback
    \/ Shutdown
    \/ Speak
    \/ WorkerStep
    \/ TtsCallback

SpecSpeech == InitSpeech /\ [][NextSpeech]_vars

\* the worker thread keeps being scheduled; JACK is not obliged to run callbacks
FairSpecSpeech ==
    /\ InitSpeech
    /\ [][NextSpeech]_vars
    /\ WF_vars(WorkerStep)

\* ------------------------------------------------------------------------
\* SchroederReverb.process
\* ------------------------------------------------------------------------
\* v * g / GainDen, the fraction below the sample resolution cut off
MulG(v, g) == TruncDiv(v * g, GainDen)

\* scipy.signal.lfilter(b, a, x, zi=zi) for b = [b0, 0, ..., 0, 1] and
\* a = [1, 0, ..., 0, -g]: y[n] = b0 * x[n] + zi[0], the state shifts and
\* takes x[n] + g * y[n] at its end; returns the output and the new state
RECURSIVE LFilter(_, _, _, _)
LFilter(b0, g, x, zi) ==
    IF x = <<>> THEN [out |-> <<>>, zi |-> zi]
    ELSE LET y == MulG(Head(x), b0) + Head(zi)
             rest == LFilter(b0, g, Tail(x), Append(Tail(zi), Head(x) + MulG(y, g)))
         IN  [out |-> <<y>> \o rest.out, zi |-> rest.zi]

\* faulty variant of StoredState: the state of the call is thrown away
StoredState_Forgotten(zi, zi_new) == zi

\* self._combs[i] = (b, a, zi_new)
StoredState(zi, zi_new) == zi_new

\* lines 78-81: the four comb filters run on the block
CombOut(i, block) == LFilter(0, comb_gains[i], block, combs[i])

\* comb_sum *= 0.25
CombSum(block) ==
    [k \in 1..Len(block) |->
        TruncDiv(CombOut(1, block).out[k] + CombOut(2, block).out[k]
                 + CombOut(3, block).out[k] + CombOut(4, block).out[k], 4)]

\* lines 86-89: the two allpass filters in series
AllpassOut1(block) == LFilter(-ap_gain, ap_gain, CombSum(block), allpasses[1])
AllpassOut2(block) == LFilter(-ap_gain, ap_gain, AllpassOut1(block).out, allpasses[2])

\* faulty variant of ReverbClip: no clipping
ReverbClip_None(v) == v

\* np.clip(result, -1.0, 1.0)
ReverbClip(v) ==
    IF v < -SampleUnit THEN -SampleUnit ELSE IF v > SampleUnit THEN SampleUnit ELSE v

\* result = block * (1.0 - self.wet) + sig * self.wet, clipped
Mix(block, sig) ==
    [k \in 1..Len(block) |->
        ReverbClip(MulG(block[k], GainDen - wet) + MulG(sig[k], wet))]

\* faulty variant of IsPassThrough: the filters always run
IsPassThrough_Never(w) == FALSE

\* if self.wet <= 0:
IsPassThrough(w) == w <= 0

\* process(block): the pass-through, or the filters, the stored state and the mix
ReverbProcess ==
    /\ Len(rv_hist) < reverbBudget
    /\ \E block \in ReverbBlocks :
         IF IsPassThrough(wet)
         THEN /\ rv_hist' = Append(rv_hist, <<block, block>>)
              /\ UNCHANGED <<combs, allpasses>>
         ELSE /\ combs' = [i \in 1..Len(combs) |->
                              StoredState(combs[i], CombOut(i, block).zi)]
              /\ allpasses' = <<StoredState(allpasses[1], AllpassOut1(block).zi),
                                 StoredState(allpasses[2], AllpassOut2(block).zi)>>
              /\ rv_hist' = Append(rv_hist, <<block, Mix(block, AllpassOut2(block).out)>>)
    /\ UNCHANGED <<wet, reverbBudget>>
    /\ UNCHANGED <<mainVars, audioVars, smVars, sqVars, volVars, cacheVars>>

InitReverbSpec ==
    /\ InitAudioIdle
    /\ InitReverb(WetRatios, MaxReverbCalls)
    /\ InitSm({{}}, 0)
    /\ InitSq(0)
    /\ InitVol(0)
    /\ InitCache({0}, 0)
    /\ InitMainIdle

NextReverb == ReverbProcess

SpecReverb == InitReverbSpec /\ [][NextReverb]_vars

\* ------------------------------------------------------------------------
\* state.py: StateMachine
\* ------------------------------------------------------------------------
\* faulty variant of IsValid: every transition is accepted
IsValid_Any(cur, new) == TRUE

\* new_state in VALID_TRANSITIONS.get(self.state, set())
IsValid(cur, new) == new \in VALID_TRANSITIONS[cur]

\* faulty variant of SavedPrevious: the state is saved on every transition
SavedPrevious_Always(cur, new, prev) == cur

\* faulty variant of SavedPrevious: the state before LISTENING is not saved
SavedPrevious_Stale(cur, new, prev) == prev

\* if new_state == KaraokeState.LISTENING: self._previous = self.state
SavedPrevious(cur, new, prev) == IF new = LISTENING THEN cur ELSE prev

\* transition(new_state), lines 28-33: the block under the lock; a rejected
\* call raises ValueError out of it, an accepted one goes on to the callbacks
Transition(t, new) ==
    /\ sm_pc[t] = "idle"
    /\ sm_calls < smBudget
    /\ sm_calls' = sm_calls + 1
    /\ sm_arg' = [sm_arg EXCEPT ![t] = new]
    /\ IF ~IsValid(sm_state, new)
       THEN /\ sm_last' = [thread |-> t, op |-> "transition", arg |-> new,
                            result |-> "ValueError"]
            /\ UNCHANGED <<sm_state, sm_previous, sm_pc, sm_trace>>
       ELSE /\ sm_last' = [thread |-> t, op |-> "transition", arg |-> new, result |-> "ok"]
            /\ sm_previous' = SavedPrevious(sm_state, new, sm_previous)
            /\ sm_state' = new
            /\ sm_trace' = Append(sm_trace, new)
            /\ sm_pc' = [sm_pc EXCEPT ![t] = "fire"]
    /\ UNCHANGED <<sm_callbacks, smBudget, sm_fired>>
    /\ UNCHANGED <<mainVars, audioVars, reverbVars, sqVars, volVars, cacheVars>>

\* transition(new_state), lines 34-35: the callbacks of new_state, called
\* after the lock is released
FireCallbacks(t) ==
    /\ sm_pc[t] = "fire"
    /\ sm_pc' = [sm_pc EXCEPT ![t] = "idle"]
    /\ sm_fired' = IF sm_arg[t] \in sm_callbacks THEN Append(sm_fired, sm_arg[t])
                    ELSE sm_fired
    /\ UNCHANGED <<sm_state, sm_previous, sm_callbacks, sm_arg, sm_last, sm_calls,
                   smBudget, sm_trace>>
    /\ UNCHANGED <<mainVars, audioVars, reverbVars, sqVars, volVars, cacheVars>>

\* return_from_listening(), lines 37-41
ReturnFromListening(t) ==
    /\ sm_pc[t] = "idle"
    /\ sm_calls < smBudget
    /\ sm_calls' = sm_calls + 1
    /\ sm_last' = [thread |-> t, op |-> "return_from_listening", arg |-> sm_state,
                    result |-> "returned"]
    /\ IF sm_state # LISTENING
       THEN UNCHANGED <<sm_state, sm_trace>>
       ELSE /\ sm_state' = sm_previous
            /\ sm_trace' = Append(sm_trace, sm_previous)
    /\ UNCHANGED <<sm_previous, sm_callbacks, sm_pc, sm_arg, smBudget, sm_fired>>
    /\ UNCHANGED <<mainVars, audioVars, reverbVars, sqVars, volVars, cacheVars>>

\* a machine without callbacks and one with callbacks on two states
InitStateSpec ==
    /\ InitAudioIdle
    /\ InitReverb({0}, 0)
    /\ InitSm({{}, {PLAYING, LISTENING}}, MaxSmCalls)
    /\ InitSq(0)
    /\ InitVol(0)
    /\ InitCache({0}, 0)
    /\ InitMainIdle

NextState ==
    \/ \E t \in SmThreads, new \in KaraokeState : Transition(t, new)
    \/ \E t \in SmThreads : FireCallbacks(t)
    \/ \E t \in SmThreads : ReturnFromListening(t)

SpecState == InitStateSpec /\ [][NextState]_vars

\* ------------------------------------------------------------------------
\* queue_manager.py: SongQueue
\* ------------------------------------------------------------------------
\* faulty variant of PopLeft: the newest song is taken
PopLeft_Right(q) == <<q[Len(q)], SubSeq(q, 1, Len(q) - 1)>>

\* deque.popleft(): the song at the left end, and the deque without it
PopLeft(q) == <<Head(q), Tail(q)>>

\* a method of the queue is called: `with self._lock` waits for the lock
QueueEnter(t, op, song) ==
    /\ sq_pc[t] = SqIdle
    /\ sq_lock = "free"
    /\ sq_calls < sqBudget
    /\ sq_calls' = sq_calls + 1
    /\ sq_lock' = t
    /\ sq_pc' = [sq_pc EXCEPT ![t] = [op |-> op, arg |-> IF op = "add" THEN song ELSE "none"]]
    /\ UNCHANGED <<sq_queue, sq_last, sq_added, sq_removed, sqBudget>>
    /\ UNCHANGED <<mainVars, audioVars, reverbVars, smVars, volVars, cacheVars>>

\* the method returns: the lock is released, the result recorded
QueueLeave(t, result, flag) ==
    /\ sq_lock' = "free"
    /\ sq_pc' = [sq_pc EXCEPT ![t] = SqIdle]
    /\ sq_last' = [thread |-> t, op |-> sq_pc[t].op, arg |-> sq_pc[t].arg,
                    result |-> result, flag |-> flag]
    /\ UNCHANGED <<sqBudget, sq_calls>>
    /\ UNCHANGED <<mainVars, audioVars, reverbVars, smVars, volVars, cacheVars>>

\* add(song), lines 10-12
QueueAdd(t) ==
    /\ sq_lock = t
    /\ sq_pc[t].op = "add"
    /\ sq_queue' = Append(sq_queue, sq_pc[t].arg)
    /\ sq_added' = Append(sq_added, sq_pc[t].arg)
    /\ UNCHANGED sq_removed
    /\ QueueLeave(t, <<>>, FALSE)

\* next(), lines 14-16: None (an empty result) on an empty queue
QueueNext(t) ==
    /\ sq_lock = t
    /\ sq_pc[t].op = "next"
    /\ IF sq_queue # <<>>
       THEN /\ sq_queue' = PopLeft(sq_queue)[2]
            /\ sq_removed' = Append(sq_removed, PopLeft(sq_queue)[1])
            /\ QueueLeave(t, <<PopLeft(sq_queue)[1]>>, TRUE)
       ELSE /\ UNCHANGED <<sq_queue, sq_removed>>
            /\ QueueLeave(t, <<>>, FALSE)
    /\ UNCHANGED sq_added

\* peek(), lines 18-20
QueuePeek(t) ==
    /\ sq_lock = t
    /\ sq_pc[t].op = "peek"
    /\ IF sq_queue # <<>>
       THEN QueueLeave(t, <<sq_queue[1]>>, TRUE)
       ELSE QueueLeave(t, <<>>, FALSE)
    /\ UNCHANGED <<sq_queue, sq_added, sq_removed>>

\* list(), lines 22-24: a copy of the deque
QueueList(t) ==
    /\ sq_lock = t
    /\ sq_pc[t].op = "list"
    /\ QueueLeave(t, sq_queue, TRUE)
    /\ UNCHANGED <<sq_queue, sq_added, sq_removed>>

\* is_empty(), lines 26-28
QueueIsEmpty(t) ==
    /\ sq_lock = t
    /\ sq_pc[t].op = "is_empty"
    /\ QueueLeave(t, <<>>, Len(sq_queue) = 0)
    /\ UNCHANGED <<sq_queue, sq_added, sq_removed>>

InitQueueSpec ==
    /\ InitAudioIdle
    /\ InitReverb({0}, 0)
    /\ InitSm({{}}, 0)
    /\ InitSq(MaxQueueCalls)
    /\ InitVol(0)
    /\ InitCache({0}, 0)
    /\ InitMainIdle

NextQueue ==
    \/ \E t \in SqThreads, op \in SqOps, song \in Songs : QueueEnter(t, op, song)
    \/ \E t \in SqThreads : QueueAdd(t)
    \/ \E t \in SqThreads : QueueNext(t)
    \/ \E t \in SqThreads : QueuePeek(t)
    \/ \E t \in SqThreads : QueueList(t)
    \/ \E t \in SqThreads : QueueIsEmpty(t)

SpecQueue == InitQueueSpec /\ [][NextQueue]_vars

\* ------------------------------------------------------------------------
\* playback.py: Player.volume_up / volume_down
\* ------------------------------------------------------------------------
\* faulty variant of VolumeAfter: the upper limit is not applied
VolumeAfter_NoCeiling(op, v) ==
    IF op = "up" THEN v + VOLUME_STEP
    ELSE IF v - VOLUME_STEP > VOLUME_MIN THEN v - VOLUME_STEP ELSE VOLUME_MIN

\* min(150, self._volume + step) and max(0, self._volume - step)
VolumeAfter(op, v) ==
    IF op = "up"
    THEN IF v + VOLUME_STEP < VOLUME_MAX THEN v + VOLUME_STEP ELSE VOLUME_MAX
    ELSE IF v - VOLUME_STEP > VOLUME_MIN THEN v - VOLUME_STEP ELSE VOLUME_MIN

\* volume_up() or volume_down() is called and reads self._volume; no lock
\* is taken, so another thread may run between the read and the store
VolumeRead(t, op) ==
    /\ vol_pc[t] = VolIdle
    /\ vol_calls < volBudget
    /\ vol_calls' = vol_calls + 1
    /\ vol_pc' = [u \in VolThreads |->
                     IF u = t
                     THEN [op |-> op, read |-> volume,
                           alone |-> \A w \in VolThreads \ {t} : vol_pc[w] = VolIdle]
                     ELSE IF vol_pc[u] = VolIdle THEN VolIdle
                     ELSE [vol_pc[u] EXCEPT !.alone = FALSE]]
    /\ UNCHANGED <<volume, mpv_volume, vol_last, volBudget>>
    /\ UNCHANGED <<mainVars, audioVars, reverbVars, smVars, sqVars, cacheVars>>

\* the store to self._volume, then _send_command("set_property", "volume", ...),
\* which swallows every failure to reach the player
VolumeStore(t) ==
    /\ vol_pc[t] # VolIdle
    /\ volume' = VolumeAfter(vol_pc[t].op, vol_pc[t].read)
    /\ \E sent \in BOOLEAN :
          /\ mpv_volume' = IF sent THEN volume' ELSE mpv_volume
          /\ vol_last' = [thread |-> t, op |-> vol_pc[t].op, read |-> vol_pc[t].read,
                           sent |-> sent]
    /\ vol_pc' = [vol_pc EXCEPT ![t] = VolIdle]
    /\ UNCHANGED <<vol_calls, volBudget>>
    /\ UNCHANGED <<mainVars, audioVars, reverbVars, smVars, sqVars, cacheVars>>

InitPlayerSpec ==
    /\ InitAudioIdle
    /\ InitReverb({0}, 0)
    /\ InitSm({{}}, 0)
    /\ InitSq(0)
    /\ InitVol(MaxVolumeCalls)
    /\ InitCache({0}, 0)
    /\ InitMainIdle

NextPlayer ==
    \/ \E t \in VolThreads, op \in {"up", "down"} : VolumeRead(t, op)
    \/ \E t \in VolThreads : VolumeStore(t)

SpecPlayer == InitPlayerSpec /\ [][NextPlayer]_vars

\* ------------------------------------------------------------------------
\* songs/cache.py: SongCache
\* ------------------------------------------------------------------------
\* SELECT COALESCE(SUM(size_bytes), 0) FROM songs
RECURSIVE SumSizes(_)
SumSizes(rows) ==
    IF rows = {} THEN 0
    ELSE LET r == CHOOSE x \in rows : TRUE
         IN  r.size_bytes + SumSizes(rows \ {r})

\* self._dir_size(song_dir) if os.path.isdir(song_dir) else 0
DirSize(dirs, id) ==
    IF \E d \in dirs : d.youtube_id = id
    THEN (CHOOSE d \in dirs : d.youtube_id = id).bytes
    ELSE 0

\* INSERT OR REPLACE INTO songs: the row of the same youtube_id is replaced
Inserted(rows, row) == {r \in rows : r.youtube_id # row.youtube_id} \cup {row}

\* SELECT ... FROM songs ORDER BY last_accessed ASC LIMIT 1
EvictNext(rows) ==
    CHOOSE r \in rows : \A o \in rows : r.last_accessed <= o.last_accessed

\* _evict(), lines 81-93: rows are deleted, with their directories, until
\* the total is within the limit or the table is empty
RECURSIVE Evict(_, _, _, _, _)
Evict(rows, dirs, sum, limit, out) ==
    IF sum > limit /\ rows # {}
    THEN LET r == EvictNext(rows)
         IN  Evict(rows \ {r}, {d \in dirs : d.youtube_id # r.youtube_id},
                   sum - r.size_bytes, limit, Append(out, r))
    ELSE [rows |-> rows, dirs |-> dirs, evicted |-> out]

\* the pipeline downloads a song into its directory before it adds it
\* (songs/pipeline.py); the tests write the directory themselves
Download(id, bytes) ==
    /\ cache_calls < cacheBudget
    /\ cache_calls' = cache_calls + 1
    /\ song_dirs' = {d \in song_dirs : d.youtube_id # id}
                        \cup {[youtube_id |-> id, bytes |-> bytes]}
    /\ cache_last' = [op |-> "download", youtube_id |-> id, before |-> songs]
    /\ UNCHANGED <<songs, max_bytes, clock, cache_evicted, cacheBudget>>
    /\ UNCHANGED <<mainVars, audioVars, reverbVars, smVars, sqVars, volVars>>

\* add(youtube_id, meta), lines 31-47, with the _evict() it ends with
CacheAdd(id) ==
    /\ cache_calls < cacheBudget
    /\ cache_calls' = cache_calls + 1
    /\ clock' = clock + 1
    /\ LET row == [youtube_id |-> id, last_accessed |-> clock',
                   size_bytes |-> DirSize(song_dirs, id)]
           rows == Inserted(songs, row)
           e == Evict(rows, song_dirs, SumSizes(rows), max_bytes, <<>>)
       IN  /\ songs' = e.rows
           /\ song_dirs' = e.dirs
           /\ cache_evicted' = e.evicted
           /\ cache_last' = [op |-> "add", youtube_id |-> id, before |-> rows]
    /\ UNCHANGED <<max_bytes, cacheBudget>>
    /\ UNCHANGED <<mainVars, audioVars, reverbVars, smVars, sqVars, volVars>>

\* get(youtube_id), lines 49-61: a hit refreshes last_accessed
CacheGet(id) ==
    /\ cache_calls < cacheBudget
    /\ cache_calls' = cache_calls + 1
    /\ clock' = clock + 1
    /\ songs' = {IF r.youtube_id = id THEN [r EXCEPT !.last_accessed = clock'] ELSE r :
                    r \in songs}
    /\ cache_last' = [op |-> "get", youtube_id |-> id, before |-> songs]
    /\ UNCHANGED <<song_dirs, max_bytes, cache_evicted, cacheBudget>>
    /\ UNCHANGED <<mainVars, audioVars, reverbVars, smVars, sqVars, volVars>>

InitCacheSpec ==
    /\ InitAudioIdle
    /\ InitReverb({0}, 0)
    /\ InitSm({{}}, 0)
    /\ InitSq(0)
    /\ InitVol(0)
    /\ InitCache({CacheLimit}, MaxCacheCalls)
    /\ InitMainIdle

NextCache ==
    \/ \E id \in SongIds, bytes \in SongSizes : Download(id, bytes)
    \/ \E id \in SongIds : CacheAdd(id)
    \/ \E id \in SongIds : CacheGet(id)

SpecCache == InitCacheSpec /\ [][NextCache]_vars

\* ------------------------------------------------------------------------
\* audio.py: start(), statement by statement
\* ------------------------------------------------------------------------
\* the statements of start(), _start_jackd(), _wait_for_jack(),
\* _start_client() and _connect_ports() that act on the server or the
\* client, in program order (lines 121-197)
StartSteps(sw) ==
    <<"running", "spawn", "probe", "client", "process_callback", "shutdown_callback",
      "mic_in">>
    \o (IF sw THEN <<"monitor_L", "monitor_R">> ELSE <<>>)
    \o <<"activate", "store", "connect_mic">>
    \o (IF sw THEN <<"connect_monitor">> ELSE <<>>)

\* the statements inside the try block of _connect_ports()
ConnectSteps == {"connect_mic", "connect_monitor"}

\* faulty variant of StepAfter: the readiness probe is left out
StepAfter_NoProbe(sw, i) ==
    IF StartSteps(sw)[i + 1] = "probe" THEN i + 2 ELSE i + 1

\* straight-line code: the statement after the i-th is the next one
StepAfter(sw, i) == i + 1

\* the statement start() is at
StartAt == StartSteps(software_monitor)[StepAfter(software_monitor, st_pc)]

\* a statement outside the probe loop and the try block: it takes effect,
\* or raises and start() raises with it
StartStatement ==
    /\ st_status \in {"new", "running"}
    /\ StartAt \notin ConnectSteps \cup {"probe"}
    /\ IF StartAt \in st_faults
       THEN /\ st_status' = "raised"
            /\ UNCHANGED <<st_pc, st_log>>
       ELSE /\ st_status' = "running"
            /\ st_pc' = StepAfter(software_monitor, st_pc)
            /\ st_log' = Append(st_log, StartAt)
    /\ UNCHANGED <<st_probes, st_cbRuns, st_faults>>
    /\ UNCHANGED <<delayVars, speakVars, kjVars, audioVars, reverbVars, smVars, sqVars, volVars,
                   cacheVars>>

\* _wait_for_jack(), lines 129-141: a probe client connects and the loop
\* returns, or the attempt fails and is repeated until the deadline
StartProbe ==
    /\ st_status = "running"
    /\ StartAt = "probe"
    /\ \E ok \in BOOLEAN :
         IF ok
         THEN /\ st_pc' = StepAfter(software_monitor, st_pc)
              /\ st_log' = Append(st_log, "probe")
              /\ UNCHANGED <<st_status, st_probes>>
         ELSE /\ st_probes' = st_probes + 1
              /\ st_status' = IF st_probes' > MaxProbeAttempts THEN "raised" ELSE st_status
              /\ UNCHANGED <<st_pc, st_log>>
    /\ UNCHANGED <<st_cbRuns, st_faults>>
    /\ UNCHANGED <<delayVars, speakVars, kjVars, audioVars, reverbVars, smVars, sqVars, volVars,
                   cacheVars>>

\* _connect_ports(), lines 183-200: a connection is made, or it raises, the
\* except clause prints a warning and start() returns
StartConnect ==
    /\ st_status = "running"
    /\ StartAt \in ConnectSteps
    /\ IF StartAt \in st_faults
       THEN /\ st_status' = "returned"
            /\ UNCHANGED <<st_pc, st_log>>
       ELSE /\ st_pc' = StepAfter(software_monitor, st_pc)
            /\ st_log' = Append(st_log, StartAt)
            /\ st_status' = IF st_pc' = Len(StartSteps(software_monitor))
                             THEN "returned" ELSE "running"
    /\ UNCHANGED <<st_probes, st_cbRuns, st_faults>>
    /\ UNCHANGED <<delayVars, speakVars, kjVars, audioVars, reverbVars, smVars, sqVars, volVars,
                   cacheVars>>

\* the server invokes the process callback of an activated client, while
\* start() is still running or after it
StartServerCallback ==
    /\ \E i \in 1..Len(st_log) : st_log[i] = "activate"
    /\ st_cbRuns < MaxStartCallbacks
    /\ st_cbRuns' = st_cbRuns + 1
    /\ UNCHANGED <<st_pc, st_status, st_log, st_probes, st_faults>>
    /\ UNCHANGED <<delayVars, speakVars, kjVars, audioVars, reverbVars, smVars, sqVars, volVars,
                   cacheVars>>

\* both monitor modes; nothing raises, or one statement does
InitStartSpec ==
    /\ InitWith({}, 0)
    /\ InitEnv({HalfAmplitude}, BOOLEAN, {}, {FALSE}, 0)
    /\ InitTts(0, 0)
    /\ InitReverb({0}, 0)
    /\ InitSm({{}}, 0)
    /\ InitSq(0)
    /\ InitVol(0)
    /\ InitCache({0}, 0)
    /\ InitStart({"new"}, {{}, {"spawn"}, {"client"}, {"mic_in"}, {"activate"},
                           {"connect_mic"}, {"connect_monitor"}})
    /\ InitDelay({0}, {0})
    /\ InitSpeak(0)
    /\ InitKj(0)

NextStart == StartStatement \/ StartProbe \/ StartConnect \/ StartServerCallback

SpecStart == InitStartSpec /\ [][NextStart]_vars

\* ------------------------------------------------------------------------
\* audio.py: SchroederReverb.__init__, the delay lengths
\* ------------------------------------------------------------------------
\* lines 27 and 43: one delay length is computed
ComputeDelay ==
    /\ dl_rate > 0
    /\ dl_out = <<>>
    /\ dl_out' = <<DelayAt(dl_d, dl_rate)>>
    /\ UNCHANGED <<dl_d, dl_rate>>
    /\ UNCHANGED <<startVars, speakVars, kjVars, audioVars, reverbVars, smVars, sqVars, volVars,
                   cacheVars>>

InitDelaySpec ==
    /\ InitAudioIdle
    /\ InitReverb({0}, 0)
    /\ InitSm({{}}, 0)
    /\ InitSq(0)
    /\ InitVol(0)
    /\ InitCache({0}, 0)
    /\ InitStart({"off"}, {{}})
    /\ InitDelay(DelayInputs, DelayRates)
    /\ InitSpeak(0)
    /\ InitKj(0)

NextDelay == ComputeDelay

SpecDelay == InitDelaySpec /\ [][NextDelay]_vars

\* ------------------------------------------------------------------------
\* voice/tts.py: speak() from several threads, and the workers it starts
\* ------------------------------------------------------------------------
\* faulty variant of StartLockFree: the lock is not taken
StartLockFree_Ignored == TRUE

\* with _start_lock: the lock can be acquired
StartLockFree == sp_lock = "free"

SpeakFrame ==
    /\ UNCHANGED <<startVars, delayVars, kjVars, audioVars, reverbVars, smVars, sqVars,
                   volVars, cacheVars>>

\* speak(text) is called and enters `with _start_lock` (lines 92-94)
SpeakEnter(t, text) ==
    /\ sp_pc[t] = SpIdle
    /\ sp_calls < spBudget
    /\ StartLockFree
    /\ sp_calls' = sp_calls + 1
    /\ sp_lock' = t
    /\ sp_pc' = [sp_pc EXCEPT ![t] = [at |-> "test", text |-> text]]
    /\ UNCHANGED <<sp_started, sp_workers, sp_queue, sp_wpc, sp_muted, sp_enq, sp_taken,
                   spBudget>>
    /\ SpeakFrame

\* `if not _started:` (line 95)
SpeakTest(t) ==
    /\ sp_pc[t].at = "test"
    /\ sp_pc' = [sp_pc EXCEPT ![t].at = IF sp_started THEN "release" ELSE "spawn"]
    /\ UNCHANGED <<sp_lock, sp_started, sp_workers, sp_queue, sp_wpc, sp_muted, sp_enq,
                   sp_taken, sp_calls, spBudget>>
    /\ SpeakFrame

\* threading.Thread(target=_worker, daemon=True).start() (line 96)
SpeakSpawn(t) ==
    /\ sp_pc[t].at = "spawn"
    /\ sp_workers' = sp_workers \cup {t}
    /\ sp_wpc' = [sp_wpc EXCEPT ![t] = [at |-> "get", text |-> "none"]]
    /\ sp_pc' = [sp_pc EXCEPT ![t].at = "mark"]
    /\ UNCHANGED <<sp_lock, sp_started, sp_queue, sp_muted, sp_enq, sp_taken, sp_calls,
                   spBudget>>
    /\ SpeakFrame

\* _started = True (line 97)
SpeakMark(t) ==
    /\ sp_pc[t].at = "mark"
    /\ sp_started' = TRUE
    /\ sp_pc' = [sp_pc EXCEPT ![t].at = "release"]
    /\ UNCHANGED <<sp_lock, sp_workers, sp_queue, sp_wpc, sp_muted, sp_enq, sp_taken,
                   sp_calls, spBudget>>
    /\ SpeakFrame

\* the end of the with block: the lock is released
SpeakRelease(t) ==
    /\ sp_pc[t].at = "release"
    /\ sp_lock' = IF sp_lock = t THEN "free" ELSE sp_lock
    /\ sp_pc' = [sp_pc EXCEPT ![t].at = "put"]
    /\ UNCHANGED <<sp_started, sp_workers, sp_queue, sp_wpc, sp_muted, sp_enq, sp_taken,
                   sp_calls, spBudget>>
    /\ SpeakFrame

\* _queue.put(text) (line 98)
SpeakPut(t) ==
    /\ sp_pc[t].at = "put"
    /\ sp_queue' = Append(sp_queue, sp_pc[t].text)
    /\ sp_enq' = Append(sp_enq, sp_pc[t].text)
    /\ sp_pc' = [sp_pc EXCEPT ![t] = SpIdle]
    /\ UNCHANGED <<sp_lock, sp_started, sp_workers, sp_wpc, sp_muted, sp_taken, sp_calls,
                   spBudget>>
    /\ SpeakFrame

\* _worker(), lines 57-72: a text is taken and synthesized; without audio
\* the worker goes back to the queue
TtsTake(w) ==
    /\ sp_wpc[w].at = "get"
    /\ sp_queue # <<>>
    /\ sp_queue' = Tail(sp_queue)
    /\ sp_taken' = Append(sp_taken, Head(sp_queue))
    /\ \E audio \in BOOLEAN :
         sp_wpc' = [sp_wpc EXCEPT ![w] = IF audio THEN [at |-> "mute", text |-> Head(sp_queue)]
                                         ELSE [at |-> "get", text |-> "none"]]
    /\ UNCHANGED <<sp_pc, sp_lock, sp_started, sp_workers, sp_muted, sp_enq, sp_calls,
                   spBudget>>
    /\ SpeakFrame

\* _audio_engine.mute_monitor() (line 75), then play_buffer() is entered
TtsMute(w) ==
    /\ sp_wpc[w].at = "mute"
    /\ sp_muted' = TRUE
    /\ sp_wpc' = [sp_wpc EXCEPT ![w].at = "play"]
    /\ UNCHANGED <<sp_pc, sp_lock, sp_started, sp_workers, sp_queue, sp_enq, sp_taken,
                   sp_calls, spBudget>>
    /\ SpeakFrame

\* play_buffer() returns or raises (line 77)
TtsPlayed(w) ==
    /\ sp_wpc[w].at = "play"
    /\ sp_wpc' = [sp_wpc EXCEPT ![w].at = "unmute"]
    /\ UNCHANGED <<sp_pc, sp_lock, sp_started, sp_workers, sp_queue, sp_muted, sp_enq,
                   sp_taken, sp_calls, spBudget>>
    /\ SpeakFrame

\* finally: _audio_engine.unmute_monitor() (line 79), back to the queue
TtsUnmute(w) ==
    /\ sp_wpc[w].at = "unmute"
    /\ sp_muted' = FALSE
    /\ sp_wpc' = [sp_wpc EXCEPT ![w] = [at |-> "get", text |-> "none"]]
    /\ UNCHANGED <<sp_pc, sp_lock, sp_started, sp_workers, sp_queue, sp_enq, sp_taken,
                   sp_calls, spBudget>>
    /\ SpeakFrame

InitSpeakSpec ==
    /\ InitAudioIdle
    /\ InitReverb({0}, 0)
    /\ InitSm({{}}, 0)
    /\ InitSq(0)
    /\ InitVol(0)
    /\ InitCache({0}, 0)
    /\ InitStart({"off"}, {{}})
    /\ InitDelay({0}, {0})
    /\ InitSpeak(MaxSpeakCalls)
    /\ InitKj(0)

NextSpeak ==
    \/ \E t \in SpThreads, text \in Texts : SpeakEnter(t, text)
    \/ \E t \in SpThreads : SpeakTest(t)
    \/ \E t \in SpThreads : SpeakSpawn(t)
    \/ \E t \in SpThreads : SpeakMark(t)
    \/ \E t \in SpThreads : SpeakRelease(t)
    \/ \E t \in SpThreads : SpeakPut(t)
    \/ \E w \in SpThreads : TtsTake(w)
    \/ \E w \in SpThreads : TtsMute(w)
    \/ \E w \in SpThreads : TtsPlayed(w)
    \/ \E w \in SpThreads : TtsUnmute(w)

SpecSpeak == InitSpeakSpec /\ [][NextSpeak]_vars

\* ------------------------------------------------------------------------
\* main.py: the handlers that move the state machine and take songs
\* ------------------------------------------------------------------------
KjFrame ==
    /\ UNCHANGED <<sm_callbacks, sm_pc, sm_arg, sm_last, sm_calls, smBudget, sm_fired>>
    /\ UNCHANGED <<sq_last, sqBudget, sq_calls, sq_lock, sq_pc>>
    /\ UNCHANGED <<startVars, delayVars, speakVars, audioVars, reverbVars, volVars,
                   cacheVars, kjBudget>>

\* self.sm.transition(new) called by thread t: test and assignment under the
\* machine's lock (state.py:28-33; main.py registers no callbacks). The
\* thread goes on at `ok`; a ValueError is caught nowhere in main.py,
\* keyboard.py or playback.py and ends the thread
KjTransition(t, new, ok, song) ==
    IF IsValid(sm_state, new)
    THEN /\ sm_previous' = SavedPrevious(sm_state, new, sm_previous)
         /\ sm_state' = new
         /\ sm_trace' = Append(sm_trace, new)
         /\ kj_pc' = [kj_pc EXCEPT ![t] = KjAt(ok, song)]
         /\ UNCHANGED kj_errors
    ELSE /\ kj_errors' = kj_errors \cup {[thread |-> t, from |-> sm_state, to |-> new,
                                         song |-> song]}
         /\ kj_pc' = [kj_pc EXCEPT ![t] = KjAt("dead", "none")]
         /\ UNCHANGED <<sm_state, sm_previous, sm_trace>>

\* self.sm.return_from_listening() (state.py:37-41)
KjReturnFromListening ==
    IF sm_state # LISTENING
    THEN UNCHANGED <<sm_state, sm_trace>>
    ELSE /\ sm_state' = sm_previous
         /\ sm_trace' = Append(sm_trace, sm_previous)

\* _listen_for_command(), lines 76-80: recording starts and a
\* _wait_and_process thread is started
ListenForCommand(t) ==
    /\ kj_pc[t].at = "record"
    /\ kj_recording' = TRUE
    /\ kj_cmds' = kj_cmds + 1
    /\ kj_pc' = [kj_pc EXCEPT ![t] = KjAt("idle", "none")]
    /\ UNCHANGED <<kj_playing, kj_played, kj_errors, kj_events>>
    /\ UNCHANGED <<sm_state, sm_previous, sm_trace, sq_queue, sq_added, sq_removed>>
    /\ KjFrame

\* _on_spacebar, line 64: the key is pressed and the state read; when
\* PLAYING the player is paused (line 65)
SpacebarPressed ==
    /\ kj_pc["kbd"].at = "idle"
    /\ kj_events < kjBudget
    /\ kj_events' = kj_events + 1
    /\ kj_pc' = [kj_pc EXCEPT !["kbd"] = KjAt(IF sm_state = PLAYING THEN "listen" ELSE "elif",
                                             "none")]
    /\ UNCHANGED <<kj_cmds, kj_recording, kj_playing, kj_played, kj_errors>>
    /\ UNCHANGED <<sm_state, sm_previous, sm_trace, sq_queue, sq_added, sq_removed>>
    /\ KjFrame

\* _on_spacebar, line 68: the state is read again
SpacebarElif ==
    /\ kj_pc["kbd"].at = "elif"
    /\ kj_pc' = [kj_pc EXCEPT !["kbd"] = KjAt(IF sm_state \in {IDLE, PAUSED} THEN "listen"
                                             ELSE "idle", "none")]
    /\ UNCHANGED <<kj_cmds, kj_recording, kj_playing, kj_played, kj_errors, kj_events>>
    /\ UNCHANGED <<sm_state, sm_previous, sm_trace, sq_queue, sq_added, sq_removed>>
    /\ KjFrame

\* _on_spacebar, lines 66 and 69: self.sm.transition(LISTENING)
SpacebarListen ==
    /\ kj_pc["kbd"].at = "listen"
    /\ KjTransition("kbd", LISTENING, "record", "none")
    /\ UNCHANGED <<kj_cmds, kj_recording, kj_playing, kj_played, kj_events>>
    /\ UNCHANGED <<sq_queue, sq_added, sq_removed>>
    /\ KjFrame

\* _mic_loop, lines 271-277: a frame arrives while nothing is recorded, the
\* state is IDLE or PAUSED and the wake word is detected
MicWakeword ==
    /\ kj_pc["mic"].at = "idle"
    /\ kj_events < kjBudget
    /\ ~kj_recording
    /\ sm_state \in {IDLE, PAUSED}
    /\ kj_events' = kj_events + 1
    /\ kj_pc' = [kj_pc EXCEPT !["mic"] = KjAt("post", "none")]
    /\ UNCHANGED <<kj_cmds, kj_recording, kj_playing, kj_played, kj_errors>>
    /\ UNCHANGED <<sm_state, sm_previous, sm_trace, sq_queue, sq_added, sq_removed>>
    /\ KjFrame

\* _mic_loop, lines 280-291: six more frames are collected and the clip
\* thread is started
MicPostFrames ==
    /\ kj_pc["mic"].at = "post"
    /\ kj_pc' = [kj_pc EXCEPT !["mic"] = KjAt("listen", "none")]
    /\ UNCHANGED <<kj_cmds, kj_recording, kj_playing, kj_played, kj_errors, kj_events>>
    /\ UNCHANGED <<sm_state, sm_previous, sm_trace, sq_queue, sq_added, sq_removed>>
    /\ KjFrame

\* _mic_loop, line 292: self.sm.transition(LISTENING)
MicListen ==
    /\ kj_pc["mic"].at = "listen"
    /\ KjTransition("mic", LISTENING, "record", "none")
    /\ UNCHANGED <<kj_cmds, kj_recording, kj_playing, kj_played, kj_events>>
    /\ UNCHANGED <<sq_queue, sq_added, sq_removed>>
    /\ KjFrame

\* _wait_and_process, lines 109-170, for a command that plays nothing: the
\* recording ends and the machine returns from LISTENING
CommandOther ==
    /\ kj_cmds > 0
    /\ kj_cmds' = kj_cmds - 1
    /\ kj_recording' = FALSE
    /\ KjReturnFromListening
    /\ UNCHANGED <<kj_pc, kj_playing, kj_played, kj_errors, kj_events>>
    /\ UNCHANGED <<sm_previous, sq_queue, sq_added, sq_removed>>
    /\ KjFrame

\* _wait_and_process and _handle_intent, lines 109-134, for "play <song>":
\* the pipeline adds the song to the queue, the machine returns from
\* LISTENING and _try_start_playback starts a _check thread
CommandPlay(song, c) ==
    /\ kj_cmds > 0
    /\ kj_pc[c].at \in {"idle", "dead"}
    /\ kj_cmds' = kj_cmds - 1
    /\ kj_recording' = FALSE
    /\ sq_queue' = Append(sq_queue, song)
    /\ sq_added' = Append(sq_added, song)
    /\ KjReturnFromListening
    /\ kj_pc' = [kj_pc EXCEPT ![c] = KjAt("test", "none")]
    /\ UNCHANGED <<kj_playing, kj_played, kj_errors, kj_events>>
    /\ UNCHANGED <<sm_previous, sq_removed>>
    /\ KjFrame

\* _check, line 225: the test that passes; the thread waits while it fails
CheckTest(c) ==
    /\ kj_pc[c].at = "test"
    /\ sm_state = IDLE
    /\ sq_queue # <<>>
    /\ kj_pc' = [kj_pc EXCEPT ![c] = KjAt("next", "none")]
    /\ UNCHANGED <<kj_cmds, kj_recording, kj_playing, kj_played, kj_errors, kj_events>>
    /\ UNCHANGED <<sm_state, sm_previous, sm_trace, sq_queue, sq_added, sq_removed>>
    /\ KjFrame

\* _check, lines 224 and 231: thirty failed tests, the thread ends
CheckGiveUp(c) ==
    /\ kj_pc[c].at = "test"
    /\ ~(sm_state = IDLE /\ sq_queue # <<>>)
    /\ kj_pc' = [kj_pc EXCEPT ![c] = KjAt("idle", "none")]
    /\ UNCHANGED <<kj_cmds, kj_recording, kj_playing, kj_played, kj_errors, kj_events>>
    /\ UNCHANGED <<sm_state, sm_previous, sm_trace, sq_queue, sq_added, sq_removed>>
    /\ KjFrame

\* song = self.queue.next() by thread t (queue_manager.py:14-16), which goes
\* on at `some` with a song and at `none` without
KjQueueNext(t, some, none) ==
    IF sq_queue # <<>>
    THEN /\ sq_queue' = PopLeft(sq_queue)[2]
         /\ sq_removed' = Append(sq_removed, PopLeft(sq_queue)[1])
         /\ kj_pc' = [kj_pc EXCEPT ![t] = KjAt(some, PopLeft(sq_queue)[1])]
    ELSE /\ UNCHANGED <<sq_queue, sq_removed>>
         /\ kj_pc' = [kj_pc EXCEPT ![t] = KjAt(none, "none")]

\* _check, lines 226-227 and 230
CheckNext(c) ==
    /\ kj_pc[c].at = "next"
    /\ KjQueueNext(c, "playing", "idle")
    /\ UNCHANGED <<kj_cmds, kj_recording, kj_playing, kj_played, kj_errors, kj_events>>
    /\ UNCHANGED <<sm_state, sm_previous, sm_trace, sq_added>>
    /\ KjFrame

\* _check, line 228, and _on_song_end, line 57: self.sm.transition(PLAYING)
StarterPlaying(t) ==
    /\ kj_pc[t].at = "playing"
    /\ KjTransition(t, PLAYING, "play", kj_pc[t].song)
    /\ UNCHANGED <<kj_cmds, kj_recording, kj_playing, kj_played, kj_events>>
    /\ UNCHANGED <<sq_queue, sq_added, sq_removed>>
    /\ KjFrame

\* _check, lines 229-230, and _on_song_end, line 58: self.player.play(song)
StarterPlay(t) ==
    /\ kj_pc[t].at = "play"
    /\ kj_played' = Append(kj_played, kj_pc[t].song)
    /\ kj_playing' = kj_pc[t].song
    /\ kj_pc' = [kj_pc EXCEPT ![t] = KjAt("idle", "none")]
    /\ UNCHANGED <<kj_cmds, kj_recording, kj_errors, kj_events>>
    /\ UNCHANGED <<sm_state, sm_previous, sm_trace, sq_queue, sq_added, sq_removed>>
    /\ KjFrame

\* playback.py:87-101: the player's process exits and _wait_for_end calls
\* _on_song_end
SongEnds ==
    /\ kj_playing # "none"
    /\ kj_pc["end"].at = "idle"
    /\ kj_playing' = "none"
    /\ kj_pc' = [kj_pc EXCEPT !["end"] = KjAt("next", "none")]
    /\ UNCHANGED <<kj_cmds, kj_recording, kj_played, kj_errors, kj_events>>
    /\ UNCHANGED <<sm_state, sm_previous, sm_trace, sq_queue, sq_added, sq_removed>>
    /\ KjFrame

\* _on_song_end, lines 54-55
SongEndNext ==
    /\ kj_pc["end"].at = "next"
    /\ KjQueueNext("end", "to_idle", "to_idle")
    /\ UNCHANGED <<kj_cmds, kj_recording, kj_playing, kj_played, kj_errors, kj_events>>
    /\ UNCHANGED <<sm_state, sm_previous, sm_trace, sq_added>>
    /\ KjFrame

\* _on_song_end, lines 56 and 60: self.sm.transition(IDLE)
SongEndIdle ==
    /\ kj_pc["end"].at = "to_idle"
    /\ KjTransition("end", IDLE, IF kj_pc["end"].song = "none" THEN "idle" ELSE "playing",
                    kj_pc["end"].song)
    /\ UNCHANGED <<kj_cmds, kj_recording, kj_playing, kj_played, kj_events>>
    /\ UNCHANGED <<sq_queue, sq_added, sq_removed>>
    /\ KjFrame

\* the songs not yet asked for
NewSongs == {x \in Songs : \A i \in 1..Len(sq_added) : sq_added[i] # x}

InitMainSpec ==
    /\ InitAudioIdle
    /\ InitReverb({0}, 0)
    /\ InitSm({{}}, 0)
    /\ InitSq(0)
    /\ InitVol(0)
    /\ InitCache({0}, 0)
    /\ InitStart({"off"}, {{}})
    /\ InitDelay({0}, {0})
    /\ InitSpeak(0)
    /\ InitKj(MaxKjEvents)

NextMain ==
    \/ SpacebarPressed
    \/ SpacebarElif
    \/ SpacebarListen
    \/ MicWakeword
    \/ MicPostFrames
    \/ MicListen
    \/ \E t \in {"kbd", "mic"} : ListenForCommand(t)
    \/ CommandOther
    \/ \E song \in NewSongs, c \in Checkers : CommandPlay(song, c)
    \/ \E c \in Checkers : CheckTest(c)
    \/ \E c \in Checkers : CheckGiveUp(c)
    \/ \E c \in Checkers : CheckNext(c)
    \/ \E t \in Checkers \cup {"end"} : StarterPlaying(t)
    \/ \E t \in Checkers \cup {"end"} : StarterPlay(t)
    \/ SongEnds
    \/ SongEndNext
    \/ SongEndIdle

SpecMain == InitMainSpec /\ [][NextMain]_vars

\* ------------------------------------------------------------------------
\* derived state
\* ------------------------------------------------------------------------
\* samples held in the frame queue
QueuedSamples == ALen(Flatten(frame_buf))

\* the running flag has been cleared after a start
Stopped == phase \in {"lost", "stopped"}

\* samples a get_frame() call under way has taken out of the queue
Held(c) == IF pc[c] = "idle" THEN Empty ELSE acc[c]

\* pushed samples not yet returned in a frame, as seen by the one consumer
Undelivered(c) == ALen(Held(c)) + QueuedSamples

\* no position occurs twice in the array
RunsDisjoint(r, s) ==
    \/ RunLast(r) < s[1]
    \/ RunLast(s) < r[1]
    \/ RunElems(r) \cap RunElems(s) = {}
NoDup(a) ==
    /\ \A i \in 1..Len(a) : a[i][2] = 1 \/ a[i][3] > 0
    /\ \A i \in 1..Len(a) : \A j \in (i + 1)..Len(a) : RunsDisjoint(a[i], a[j])

\* ------------------------------------------------------------------------
\* C1: every value get_frame() has returned is None or a frame of exactly
\* FRAME_SIZE samples; a shorter frame is never returned.
\* ------------------------------------------------------------------------
C1_FrameIsFull ==
    \A c \in consumers :
        /\ ret[c].kind \in {"unset", "none", "frame"}
        /\ ret[c].kind = "frame" => ALen(ret[c].data) = FRAME_SIZE
        /\ ret[c].kind # "frame" => ret[c].data = Empty

\* a frame was cut out of a longer accumulation, leaving a partial remainder
C1_Witness ==
    /\ pc["mic"] = "idle"
    /\ ret["mic"].kind = "frame"
    /\ ALen(acc["mic"]) > FRAME_SIZE
    /\ ALen(acc["mic"]) < 2 * FRAME_SIZE

\* ------------------------------------------------------------------------
\* C2: one producer, one consumer: while the engine runs, the frames
\* returned so far, in order, are a prefix of the stream of pushed samples,
\* and every pushed sample is in a returned frame, in the call under way or
\* still queued, in stream order (nothing lost, duplicated or reordered).
\* ------------------------------------------------------------------------
C2_PrefixOfPushed ==
    ~Stopped =>
        /\ delivered = Take(pushed, ALen(delivered))
        /\ Concat(Concat(delivered, Held("mic")), Flatten(frame_buf)) = pushed

\* a push landed between the drain and the re-insertion of the remainder
C2_Witness ==
    /\ ~Stopped
    /\ pc["mic"] = "requeue"
    /\ frame_buf # <<>>
    /\ ALen(RemainderOf(acc["mic"])) > 0

\* ------------------------------------------------------------------------
\* C3: a get_frame() call made while the running flag is false returns None
\* without going through the event wait, whatever the queue holds.
\* ------------------------------------------------------------------------
C3_StoppedReturnsNone ==
    \A c \in consumers :
        ~calledRunning[c] =>
            /\ pc[c] = "idle"
            /\ ~waited[c]
            /\ ret[c] \in {Unset, None}

\* the call was made on a stopped engine whose queue holds a whole frame
C3_Witness ==
    /\ ~running
    /\ ~calledRunning["mic"]
    /\ ret["mic"] = None
    /\ QueuedSamples >= FRAME_SIZE

\* ------------------------------------------------------------------------
\* C6: when get_frame() returns a frame cut from N > FRAME_SIZE gathered
\* samples, the N - FRAME_SIZE samples that follow the frame are the chunk
\* at the front of the queue: 1380 gathered gives 1280 returned, 100 queued.
\* ------------------------------------------------------------------------
C6_RemainderRequeued ==
    (pc["mic"] = "idle" /\ ret["mic"].kind = "frame" /\ ALen(acc["mic"]) > FRAME_SIZE) =>
        /\ frame_buf # <<>>
        /\ ALen(frame_buf[1]) = ALen(acc["mic"]) - FRAME_SIZE
        /\ Concat(ret["mic"].data, frame_buf[1]) = acc["mic"]

C6_Witness ==
    /\ pc["mic"] = "idle"
    /\ ret["mic"].kind = "frame"
    /\ ALen(acc["mic"]) = FRAME_SIZE + 100
    /\ ALen(ret["mic"].data) = FRAME_SIZE
    /\ QueuedSamples = 100

\* ------------------------------------------------------------------------
\* C7: with two consumers calling get_frame() concurrently, no sample is in
\* two returned frames, nor in a returned frame and also still held or queued.
\* ------------------------------------------------------------------------
C7_NoSampleTwice ==
    /\ NoDup(delivered)
    /\ NoDup(Concat(Concat(Concat(delivered, Held("mic")), Held("aux")), Flatten(frame_buf)))

\* both consumers have been handed a frame
C7_Witness ==
    /\ consumers = MultiConsumers
    /\ ret["mic"].kind = "frame"
    /\ ret["aux"].kind = "frame"
    /\ ALen(delivered) = 2 * FRAME_SIZE

\* ------------------------------------------------------------------------
\* C8: the frame lock is held only inside the two short critical sections
\* of get_frame() (drain, requeue) and the push of the callback, each of
\* which releases it in its one step; it is never held across the event wait.
\* ------------------------------------------------------------------------
C8_LockNeverHeldWaiting ==
    /\ \A c \in consumers :
          /\ lock = c => pc[c] \in {"drain", "requeue"}
          /\ pc[c] \in {"wait", "clear", "while", "idle"} => lock # c
    /\ lock = "cb" => cbpc = "push"
    /\ lock \in {"none", "cb"} \cup consumers

\* the callback is at its lock while a consumer is inside a critical section
C8_Witness ==
    /\ cbpc = "lock"
    /\ lock = "mic"

\* ------------------------------------------------------------------------
\* C9 (as stated): the number of samples held in the queue never exceeds a
\* fixed capacity, here CapacityProbe frames.
\* ------------------------------------------------------------------------
C9_QueueBounded == QueuedSamples <= CapacityProbe * FRAME_SIZE

\* C9 (amended): the queue has no capacity limit: while no consumer has
\* called get_frame(), it holds every decimated sample pushed so far, that
\* is floor(T/3) samples after the callback has received T native samples.
C9_QueueHoldsAllPushed ==
    ((\A c \in consumers : ret[c] = Unset /\ pc[c] = "idle") /\ cbpc = "idle") =>
        /\ QueuedSamples = total \div 3
        /\ Flatten(frame_buf) = pushed

C9_Witness ==
    /\ \A c \in consumers : ret[c] = Unset /\ pc[c] = "idle"
    /\ cbpc = "idle"
    /\ QueuedSamples > CapacityProbe * FRAME_SIZE

\* ------------------------------------------------------------------------
\* C10: after every callback invocation the carry-over buffer has length
\* (native samples received so far) mod 3, for any sequence of block sizes.
\* ------------------------------------------------------------------------
C10_CarryIsTotalMod3 ==
    /\ ALen(ds_buf) = total % 3
    /\ ALen(ds_buf) \in {0, 1, 2}

\* blocks of different sizes have left a carry of two samples
C10_Witness ==
    /\ cbCount >= 2
    /\ ALen(ds_buf) = 2
    /\ total > JACK_PERIOD

\* ------------------------------------------------------------------------
\* C4: once the running flag is cleared, a get_frame() call under way goes
\* through the event wait at most once more and then returns: a frame if it
\* has gathered FRAME_SIZE samples by then, None otherwise; no call stays
\* blocked forever.
\* ------------------------------------------------------------------------
C4_StopUnblocks ==
    /\ [](\A c \in SingleConsumer :
            /\ waitsAfterStop[c] <= 1
            /\ (pc[c] = "idle" /\ waitsAfterStop[c] = 1) =>
                   IF HasFrame(acc[c]) THEN ret[c].kind = "frame" ELSE ret[c] = None)
    /\ \A c \in SingleConsumer : (~running ~> pc[c] = "idle")

\* a call that was waiting when the flag was cleared has returned None
C4_Witness ==
    /\ Stopped
    /\ pc["mic"] = "idle"
    /\ calledRunning["mic"]
    /\ waitsAfterStop["mic"] = 1
    /\ ret["mic"] = None

\* ------------------------------------------------------------------------
\* C5: single consumer: while the engine keeps running, a get_frame() call
\* under way with at least FRAME_SIZE pushed samples not yet delivered
\* eventually returns a frame.
\* ------------------------------------------------------------------------
C5_FrameEventuallyReturned ==
    \A c \in SingleConsumer :
        (pc[c] # "idle" /\ Undelivered(c) >= FRAME_SIZE)
            ~> ((pc[c] = "idle" /\ ret[c].kind = "frame") \/ ~running)

\* a second frame came out of a queue refilled only by the requeued
\* remainder, with the event already cleared by the first call
C5_Witness ==
    /\ running
    /\ pc["mic"] = "idle"
    /\ ret["mic"].kind = "frame"
    /\ waited["mic"]
    /\ ~frame_event
    /\ ALen(delivered) = 2 * FRAME_SIZE
    /\ QueuedSamples = 0

\* ------------------------------------------------------------------------
\* C11: when the native-rate blocks received so far total a multiple of 3,
\* the callback has pushed exactly total/3 decimated samples over all its
\* invocations and the carry-over buffer is empty.
\* ------------------------------------------------------------------------
C11_DecimationComplete ==
    (cbpc = "idle" /\ total % 3 = 0) =>
        /\ ALen(pushed) = total \div 3
        /\ ds_buf = Empty

\* three blocks of 256: the carry went 1, 2, 0 and 256 samples were pushed
C11_Witness ==
    /\ cbpc = "idle"
    /\ cbCount = 3
    /\ total = 3 * JACK_PERIOD
    /\ ALen(pushed) = JACK_PERIOD
    /\ ds_buf = Empty

\* ------------------------------------------------------------------------
\* C12 as stated: one JACK_PERIOD block of amplitude 0.5 fed to a fresh
\* engine pushes JACK_PERIOD \div 3 samples, each round(0.5 * 32767)
\* (round half to even), and leaves JACK_PERIOD % 3 samples in the carry.
\* ------------------------------------------------------------------------
C12_PushedRounded ==
    (cbCount = 1 /\ total = JACK_PERIOD /\ amp = HalfAmplitude /\ cbpc = "idle") =>
        LET x == HalfAmplitude * INT16_SCALE
            q == x \div AmpDen
            r == x % AmpDen
            rounded == IF 2 * r > AmpDen \/ (2 * r = AmpDen /\ q % 2 = 1) THEN q + 1 ELSE q
        IN  /\ ALen(pushed) = JACK_PERIOD \div 3
            /\ pushedVals = {rounded}
            /\ ALen(ds_buf) = JACK_PERIOD % 3

\* ------------------------------------------------------------------------
\* C12 amended: one JACK_PERIOD block of amplitude 0.5 fed to a fresh engine
\* pushes JACK_PERIOD \div 3 samples, each 0.5 * 32767 with the fraction cut
\* off (16383), and leaves JACK_PERIOD % 3 samples in the carry.
\* ------------------------------------------------------------------------
C12_PushedTruncated ==
    (cbCount = 1 /\ total = JACK_PERIOD /\ amp = HalfAmplitude /\ cbpc = "idle") =>
        LET x == HalfAmplitude * INT16_SCALE
        IN  /\ ALen(pushed) = JACK_PERIOD \div 3
            /\ pushedVals # {}
            /\ \A v \in pushedVals : v * AmpDen <= x /\ x < (v + 1) * AmpDen
            /\ ALen(ds_buf) = JACK_PERIOD % 3

\* the half-scale block has been decimated and pushed
C12_Witness ==
    /\ cbCount = 1
    /\ total = JACK_PERIOD
    /\ amp = HalfAmplitude
    /\ cbpc = "idle"
    /\ pushedVals = {16383}
    /\ ALen(pushed) = 85
    /\ ALen(ds_buf) = 1

\* ------------------------------------------------------------------------
\* C13: in software-monitor mode a callback invocation that comes after a
\* mute_monitor() call with no unmute_monitor() call since writes zeros to
\* both monitor ports, whatever the input level; an invocation that comes
\* after unmute_monitor() (or before any mute) writes the gain-and-reverb
\* signal of the input to both.
\* ------------------------------------------------------------------------
C13_MutedSilence ==
    [][(software_monitor /\ cbCount' = cbCount + 1) =>
          IF muteRequested
          THEN /\ monitor_L' = Zeros(total' - total)
               /\ monitor_R' = Zeros(total' - total)
          ELSE /\ monitor_L' = Wet(total' - total, MIC_GAIN, amp)
               /\ monitor_R' = Wet(total' - total, MIC_GAIN, amp)]_vars

\* a callback ran on a non-silent input while muted, after an earlier one
C13_Witness ==
    /\ software_monitor
    /\ muteRequested
    /\ amp # 0
    /\ cbCount = 2
    /\ monitor_L = Zeros(JACK_PERIOD)
    /\ monitor_R = Zeros(JACK_PERIOD)

C15_ShutdownStopsAll ==
    (shutdownCalls >= 1 /\ shutdownResult.status = "returned") =>
        /\ ~running
        /\ jack_proc = "none"
        /\ zita_proc = "none"
        /\ \A p \in {"jackd", "zita"} :
              <<p, "kill">> \in signals => <<p, "terminate">> \in signals

\* ------------------------------------------------------------------------
\* C16: whatever fails during teardown, a shutdown() call returns without
\* an error and leaves the running flag false, no client and no process
\* handle.
\* ------------------------------------------------------------------------
C16_ShutdownBestEffort ==
    shutdownCalls >= 1 =>
        /\ shutdownResult.status = "returned"
        /\ ~running
        /\ client = "none"
        /\ jack_proc = "none"

\* ------------------------------------------------------------------------
\* C17: when the readiness probe times out, start() has raised, no client
\* exists and no callback has ever run; from then on the engine only stays
\* failed or is shut down: nothing probes or spawns again.
\* ------------------------------------------------------------------------
C17_ProbeTimeoutFatal ==
    /\ [](probeResult = "timeout" =>
            /\ startResult = "raised"
            /\ client = "none"
            /\ cbCount = 0
            /\ phase \in {"failed", "stopped"})
    /\ [][probeResult = "timeout" =>
            /\ phase' \in {"failed", "stopped"}
            /\ client' = "none"
            /\ jack_proc' \in {jack_proc, "none"}]_vars

\* the probe timed out with the server process spawned and still alive
C17_Witness ==
    /\ probeResult = "timeout"
    /\ startResult = "raised"
    /\ phase = "failed"
    /\ client = "none"
    /\ jack_proc = "running"

\* ------------------------------------------------------------------------
\* C18: when connecting the ports fails, start() still returns normally,
\* with the client activated and the running flag left as it was (true).
\* ------------------------------------------------------------------------
C18_ConnectFailureNonFatal ==
    /\ [](connectResult = "failed" => startResult = "returned")
    /\ [][(connectResult = "none" /\ connectResult' = "failed") =>
            /\ startResult' = "returned"
            /\ phase' = "active"
            /\ client' = "active"
            /\ running /\ running']_vars

\* the connection failed, start() returned and the callback delivers audio
C18_Witness ==
    /\ connectResult = "failed"
    /\ startResult = "returned"
    /\ phase = "active"
    /\ client = "active"
    /\ running
    /\ pushed # Empty

\* ------------------------------------------------------------------------
\* C19: while play_buffer() streams, after k callback invocations pos is
\* k periods, both ports hold the same block, the block is one period long
\* (buffer samples followed by zero padding), the samples written so far are
\* the first min(len, pos) samples of the buffer in order, each once;
\* done_event was first set by invocation len \div period + 1 (the first
\* with less than a period left, also when len is a multiple of the period)
\* and every invocation after that one writes only zeros.
\* ------------------------------------------------------------------------
C19_InjectorStreamsBuffer ==
    wpc \in {"wait", "deactivate", "close"} =>
        LET P == JACK_PERIOD
            firstShort == audio_len \div P + 1
        IN  /\ pos = ttsCalls * P
            /\ out_L = out_R
            /\ ttsCalls > 0 =>
                  /\ out_L.lo = pos - P
                  /\ out_L.n + out_L.pad = P
                  /\ out_L.n >= 0 /\ out_L.pad >= 0
            /\ emitted = Take(<<Mk(0, audio_len, 1)>>, IF pos < audio_len THEN pos ELSE audio_len)
            /\ done_event <=> ttsCalls >= firstShort
            /\ done_event => ttsDoneAt = firstShort
            /\ ~done_event => ttsDoneAt = 0
            /\ ttsCalls > firstShort => out_L = Block(pos - P, 0, P)

\* a buffer of exactly one period: the second invocation signalled completion
\* and the third wrote silence
C19_Witness ==
    /\ wpc = "wait"
    /\ audio_len = JACK_PERIOD
    /\ ttsCalls = 3
    /\ ttsDoneAt = 2
    /\ emitted = <<Mk(0, JACK_PERIOD, 1)>>
    /\ out_L = Block(2 * JACK_PERIOD, 0, JACK_PERIOD)

\* ------------------------------------------------------------------------
\* C20: a play_buffer() call that has started ends (returns or raises),
\* whether or not the callback ever signals completion; when it has
\* returned, the injection client has been deactivated and closed.
\* ------------------------------------------------------------------------
C20_PlayBufferTerminates ==
    /\ (wpc = "play") ~> (wpc = "unmute")
    /\ [](wpc = "close" => tts_client = "inactive")
    /\ []((wpc = "unmute" /\ playResult = "returned") => tts_client = "closed")

\* play_buffer() returned on the timeout: completion was never signalled
C20_Witness ==
    /\ wpc = "unmute"
    /\ playResult = "returned"
    /\ ~done_event
    /\ tts_client = "closed"

\* ------------------------------------------------------------------------
\* C21: once the running flag has been cleared, the completion wait of
\* play_buffer() stays blocked for at most one more polling interval.
\* ------------------------------------------------------------------------
C21_StopEndsPlayWait ==
    wpc = "wait" => ticksAfterStop <= 1

\* ------------------------------------------------------------------------
\* C22: with a wet ratio <= 0 every process() call so far returned its
\* input block unchanged, and the state of every comb and allpass filter is
\* still what __init__ set.
\* ------------------------------------------------------------------------
C22_PassThroughKeepsState ==
    wet <= 0 =>
        /\ \A k \in 1..Len(rv_hist) : rv_hist[k][2] = rv_hist[k][1]
        /\ \A i \in 1..Len(combs) : combs[i] = ZeroState(comb_delays[i])
        /\ \A i \in 1..Len(allpasses) : allpasses[i] = ZeroState(ap_delays[i])

\* three pass-through calls in a row, the last on a non-silent block
C22_Witness ==
    /\ wet = 0
    /\ Len(rv_hist) = 3
    /\ rv_hist[1][1] = ImpulseBlock
    /\ rv_hist[3][1] = <<900, 900>>
    /\ rv_hist[3][2] = <<900, 900>>

\* ------------------------------------------------------------------------
\* C23 as stated: every process() call returned a block as long as its
\* input with every sample within [-1, 1].
\* ------------------------------------------------------------------------
C23_OutputInRange ==
    \A k \in 1..Len(rv_hist) :
        /\ Len(rv_hist[k][2]) = Len(rv_hist[k][1])
        /\ \A n \in 1..Len(rv_hist[k][2]) :
              -SampleUnit <= rv_hist[k][2][n] /\ rv_hist[k][2][n] <= SampleUnit

\* ------------------------------------------------------------------------
\* C23 amended: every process() call returned a block as long as its input;
\* with a wet ratio > 0 every sample of it lies within [-1, 1], with a wet
\* ratio <= 0 it is the input itself, out-of-range samples included.
\* ------------------------------------------------------------------------
C23_OutputInRangeWhenWet ==
    \A k \in 1..Len(rv_hist) :
        /\ Len(rv_hist[k][2]) = Len(rv_hist[k][1])
        /\ wet > 0 =>
              \A n \in 1..Len(rv_hist[k][2]) :
                  -SampleUnit <= rv_hist[k][2][n] /\ rv_hist[k][2][n] <= SampleUnit
        /\ wet <= 0 => rv_hist[k][2] = rv_hist[k][1]

\* a block beyond full scale went through the filters twice and was clipped
C23_Witness ==
    /\ wet = 30
    /\ Len(rv_hist) = 2
    /\ rv_hist[1][1] = <<2000, -2000, 500>>
    /\ rv_hist[2][1] = <<2000, -2000, 500>>
    /\ rv_hist[2][2][1] = SampleUnit
    /\ rv_hist[2][2][2] = -SampleUnit

\* ------------------------------------------------------------------------
\* C24: with a wet ratio > 0, when a fresh reverb is fed an impulse block
\* and then only silent blocks, one of the silent blocks among the first
\* that together cover the longest delay has a non-silent output.
\* ------------------------------------------------------------------------
C24_TailAudible ==
    LET longest == 7
        cover == (longest + Len(SilentBlock) - 1) \div Len(SilentBlock)
    IN  /\ \A i \in 1..Len(comb_delays) : comb_delays[i] <= longest
        /\ \A i \in 1..Len(ap_delays) : ap_delays[i] <= longest
        /\ (/\ wet > 0
            /\ Len(rv_hist) >= 1 + cover
            /\ rv_hist[1][1] = ImpulseBlock
            /\ \A k \in 2..(1 + cover) : rv_hist[k][1] = SilentBlock)
           => \E k \in 2..(1 + cover) : rv_hist[k][2] # SilentBlock

\* the impulse is heard in the first silent block and not in the second
C24_Witness ==
    /\ wet = 50
    /\ Len(rv_hist) = 3
    /\ rv_hist[1][1] = ImpulseBlock
    /\ rv_hist[2][1] = SilentBlock
    /\ rv_hist[3][1] = SilentBlock
    /\ rv_hist[2][2] # SilentBlock

\* ------------------------------------------------------------------------
\* C25: the machine starts in IDLE; a call of transition(new) whose pair
\* (current, new) is in VALID_TRANSITIONS sets the state to new, and any
\* other call raises ValueError, leaves the state and the saved previous
\* state as they were and fires no callback. Nothing but an accepted
\* transition or a return from listening changes the state.
\* ------------------------------------------------------------------------
C25_TransitionValid ==
    /\ [](sm_calls = 0 => sm_state = IDLE /\ sm_previous = IDLE)
    /\ [][IF sm_calls' = sm_calls + 1 /\ sm_last'.op = "transition"
          THEN IF sm_last'.arg \in VALID_TRANSITIONS[sm_state]
               THEN /\ sm_last'.result = "ok"
                    /\ sm_state' = sm_last'.arg
               ELSE /\ sm_last'.result = "ValueError"
                    /\ sm_state' = sm_state
                    /\ sm_previous' = sm_previous
                    /\ sm_fired' = sm_fired
                    /\ sm_pc' = sm_pc
          ELSE (sm_calls' = sm_calls) => (sm_state' = sm_state /\ sm_previous' = sm_previous)
         ]_vars

\* a machine with callbacks accepted a transition and then rejected one
C25_Witness ==
    /\ sm_callbacks # {}
    /\ sm_trace = <<IDLE, PLAYING>>
    /\ sm_last.op = "transition"
    /\ sm_last.arg = PLAYING
    /\ sm_last.result = "ValueError"
    /\ sm_fired = <<PLAYING>>

\* ------------------------------------------------------------------------
\* C26: return_from_listening() called in LISTENING sets the state to the
\* one the machine was in just before it last entered LISTENING; called in
\* any other state it leaves the state and the saved previous state alone.
\* ------------------------------------------------------------------------
C26_ReturnRestores ==
    [][(sm_calls' = sm_calls + 1 /\ sm_last'.op = "return_from_listening") =>
          IF sm_state = LISTENING
          THEN /\ sm_trace[Len(sm_trace)] = LISTENING
               /\ sm_state' = sm_trace[Len(sm_trace) - 1]
          ELSE /\ sm_state' = sm_state
               /\ sm_previous' = sm_previous
               /\ sm_fired' = sm_fired
               /\ sm_pc' = sm_pc
      ]_vars

\* playing, then listening, then back to playing
C26_Witness ==
    /\ sm_trace = <<IDLE, PLAYING, LISTENING, PLAYING>>
    /\ sm_last.op = "return_from_listening"
    /\ sm_last.arg = LISTENING
    /\ sm_state = PLAYING

\* ------------------------------------------------------------------------
\* C27: whatever the interleaving of the threads, the songs returned by
\* next() followed by the songs still queued are the songs added, in the
\* order they were added; next() returns the oldest song not yet removed
\* and removes it, or returns None on an empty queue and changes nothing;
\* peek(), list() and is_empty() leave the queue as it was.
\* ------------------------------------------------------------------------
C27_QueueIsFifo ==
    /\ [](sq_added = sq_removed \o sq_queue)
    /\ [][(sq_lock # "free" /\ sq_lock' = "free") =>
             CASE sq_last'.op = "next" ->
                    IF sq_queue = <<>>
                    THEN sq_last'.result = <<>> /\ sq_queue' = sq_queue
                    ELSE /\ sq_last'.result = <<sq_added[Len(sq_removed) + 1]>>
                         /\ sq_queue' = Tail(sq_queue)
               [] sq_last'.op \in {"peek", "list", "is_empty"} -> sq_queue' = sq_queue
               [] OTHER -> TRUE
         ]_vars

\* two songs were added and the end-of-song watcher took the first
C27_Witness ==
    /\ sq_added = <<"a", "b">>
    /\ sq_removed = <<"a">>
    /\ sq_queue = <<"b">>
    /\ sq_last.op = "next"
    /\ sq_last.thread = "end"

\* ------------------------------------------------------------------------
\* C28: in hardware-monitor mode the engine has no mute flag and its
\* monitor ports are never written; a call of mute_monitor() or
\* unmute_monitor() changes nothing of the engine, and a step of the
\* callback changes only the decimator and the frame channel.
\* ------------------------------------------------------------------------
C28_HardwareModeNoMonitor ==
    /\ [](~software_monitor =>
            /\ monitor_muted = "absent"
            /\ monitor_L = Unwritten
            /\ monitor_R = Unwritten)
    /\ [][~software_monitor =>
             /\ (muteRequested' # muteRequested) =>
                   UNCHANGED <<engineVars, frameVars, cbVars, consVars, lifeVars,
                               monitor_muted, monitor_L, monitor_R, ttsVars>>
             /\ (cbpc' # cbpc \/ cbCount' # cbCount) =>
                   UNCHANGED <<engineVars, lifeVars, monVars, consVars, ttsVars>>
         ]_vars

\* hardware mode: a mute request arrived and the callback has queued a block
C28_Witness ==
    /\ ~software_monitor
    /\ muteRequested
    /\ monitor_muted = "absent"
    /\ cbCount > 0
    /\ frame_buf # <<>>
    /\ monitor_L = Unwritten

\* ------------------------------------------------------------------------
\* C29: the volume is always within [0, 150]; a call of volume_up() or
\* volume_down() that no other call overlaps leaves 150 at 150 (up) and
\* 0 at 0 (down) and otherwise moves the volume by exactly 10, and every
\* call stores the clamped step from the volume it read.
\* ------------------------------------------------------------------------
C29_VolumeClamped ==
    /\ [](VOLUME_MIN <= volume /\ volume <= VOLUME_MAX)
    /\ [][\A t \in VolThreads :
             (vol_pc[t] # VolIdle /\ vol_pc'[t] = VolIdle) =>
                LET op == vol_pc[t].op
                    r == vol_pc[t].read
                IN  /\ (op = "up" /\ r = 150) => volume' = 150
                    /\ (op = "down" /\ r = 0) => volume' = 0
                    /\ (op = "up" /\ r # 150) => volume' = r + 10
                    /\ (op = "down" /\ r # 0) => volume' = r - 10
                    /\ vol_pc[t].alone => r = volume
         ]_vars

\* five calls of volume_up() reached the ceiling and a sixth left it there
C29_Witness ==
    /\ volume = 150
    /\ vol_last.op = "up"
    /\ vol_last.read = 150
    /\ vol_calls = 6
    /\ vol_last.thread = "kbd"
    /\ \A t \in VolThreads : vol_pc[t] = VolIdle

\* ------------------------------------------------------------------------
\* C30: after every add() the sizes of the rows left sum to at most
\* max_bytes; the rows it evicted are the least recently accessed ones, in
\* ascending order of last_accessed; and when the table held one other row
\* and the two together exceed the limit, the older row is removed and the
\* row just added is kept.
\* ------------------------------------------------------------------------
C30_LruKeepsNew ==
    cache_last.op = "add" =>
        /\ SumSizes(songs) <= max_bytes
        /\ \A i, j \in 1..Len(cache_evicted) :
              i < j => cache_evicted[i].last_accessed < cache_evicted[j].last_accessed
        /\ \A i \in 1..Len(cache_evicted), r \in songs :
              cache_evicted[i].last_accessed < r.last_accessed
        /\ (/\ Cardinality(cache_last.before) = 2
            /\ SumSizes(cache_last.before) > max_bytes)
           => /\ \E r \in songs : r.youtube_id = cache_last.youtube_id
              /\ \A r \in songs : r.youtube_id = cache_last.youtube_id

\* ------------------------------------------------------------------------
\* C31: start() never skips ahead: the client is created only after the
\* probe succeeded, which happens only after the server was spawned; the
\* client is activated only after both callbacks were installed and the
\* ports registered; and ports are connected only after activation. The
\* server invokes the callback only on an activated client.
\* ------------------------------------------------------------------------
C31_StartInOrder ==
    LET Pos(e) == IF \E i \in 1..Len(st_log) : st_log[i] = e
                  THEN CHOOSE i \in 1..Len(st_log) : st_log[i] = e
                  ELSE 0
        Before(a, b) == Pos(b) > 0 => (Pos(a) > 0 /\ Pos(a) < Pos(b))
        Ports == IF software_monitor THEN {"mic_in", "monitor_L", "monitor_R"}
                 ELSE {"mic_in"}
    IN  /\ Before("spawn", "probe")
        /\ Before("probe", "client")
        /\ Before("client", "process_callback")
        /\ Before("client", "shutdown_callback")
        /\ \A q \in Ports : Before("client", q)
        /\ \A e \in {"process_callback", "shutdown_callback"} \cup Ports :
              Before(e, "activate")
        /\ \A c \in ConnectSteps : Before("activate", c)
        /\ ~software_monitor =>
              \A e \in {"monitor_L", "monitor_R", "connect_monitor"} : Pos(e) = 0
        /\ st_cbRuns > 0 => Pos("activate") > 0
        /\ st_status = "returned" => Pos("store") > 0

\* software mode: start() returned after connecting all ports, and the
\* callback has run meanwhile
C31_Witness ==
    /\ software_monitor
    /\ st_status = "returned"
    /\ st_log = StartSteps(TRUE)
    /\ st_probes = 1
    /\ st_cbRuns > 0

\* ------------------------------------------------------------------------
\* C32: however the captured stream is cut into callback blocks, the
\* chunks the callback has produced, put end to end, are the samples at
\* stream positions 0, 3, 6, ... up to the samples received so far, each
\* converted to int16.
\* ------------------------------------------------------------------------
C32_PhaseContinuous ==
    LET produced == Concat(pushed, cb_data)
    IN  /\ IsStreamFrom(produced, 0)
        /\ ALen(produced) = total \div 3
        /\ \A r \in 1..Len(produced) : RunElems(produced[r]) \subseteq 0..(total - 1)
        /\ pushedVals \subseteq {Int16Of(amp)}

\* blocks of 2, 300 and 256 samples: 186 positions pushed as one run of
\* stride 3 from position 0
C32_Witness ==
    /\ cbpc = "idle"
    /\ cbCount = 3
    /\ total = 2 + 300 + JACK_PERIOD
    /\ ds_buf = Empty
    /\ pushed = <<Mk(0, 186, 3)>>

\* ------------------------------------------------------------------------
\* C33: in hardware mode, in software mode unmuted and in software mode
\* muted alike, the chunks produced and the decimator carry are the same
\* function of the samples captured so far, and the int16 values pushed
\* are those of the captured signal, not of the monitor signal; a call of
\* mute_monitor() or unmute_monitor() changes neither the decimator nor
\* the frame queue.
\* ------------------------------------------------------------------------
C33_SpeechPathIndependent ==
    /\ [](LET produced == Concat(pushed, cb_data)
              left == total % 3
          IN  /\ IsStreamFrom(produced, 0)
              /\ ALen(produced) = total \div 3
              /\ ds_buf = IF left = 0 THEN Empty ELSE <<Mk(total - left, left, 1)>>
              /\ pushedVals \subseteq {Int16Of(amp)})
    /\ [][(muteRequested' # muteRequested \/ monitor_muted' # monitor_muted)
             => UNCHANGED <<cbVars, frameVars>>]_vars

\* software mode, muted after an unmuted block: both blocks were decimated
C33_Witness ==
    /\ software_monitor
    /\ monitor_muted = "muted"
    /\ monitor_L = Zeros(JACK_PERIOD)
    /\ cbCount = 2
    /\ cbpc = "idle"
    /\ total = 2 * JACK_PERIOD
    /\ ALen(pushed) = 170
    /\ pushedVals = {Int16Of(amp)}

\* round(a / b) for a >= 0 and b > 0, halves going to the even neighbour
RoundDiv(a, b) ==
    LET q == a \div b
        r == a % b
    IN  IF 2 * r < b THEN q
        ELSE IF 2 * r > b THEN q + 1
        ELSE IF q % 2 = 0 THEN q ELSE q + 1

\* ------------------------------------------------------------------------
\* C34 as stated: at the engine rate 48000 each comb and allpass delay
\* length is round(reference_delay * rate / 44100).
\* ------------------------------------------------------------------------
C34_DelaysRounded ==
    (dl_rate = 48000 /\ dl_d \in {1557, 1617, 1491, 1422, 225, 556} /\ dl_out # <<>>)
        => dl_out = <<RoundDiv(dl_d * dl_rate, 44100)>>

\* ------------------------------------------------------------------------
\* C34 amended: each delay length is reference_delay * rate / 44100 with
\* the fraction cut off; at the engine rate 48000 the comb delays are
\* 1694, 1760, 1622, 1547 and the allpass delays 244, 605.
\* ------------------------------------------------------------------------
C34_DelaysTruncated ==
    dl_out # <<>> =>
        /\ dl_out[1] * 44100 <= dl_d * dl_rate
        /\ dl_d * dl_rate < (dl_out[1] + 1) * 44100
        /\ dl_rate = 48000 =>
              /\ dl_d = 1557 => dl_out = <<1694>>
              /\ dl_d = 1617 => dl_out = <<1760>>
              /\ dl_d = 1491 => dl_out = <<1622>>
              /\ dl_d = 1422 => dl_out = <<1547>>
              /\ dl_d = 225 => dl_out = <<244>>
              /\ dl_d = 556 => dl_out = <<605>>

\* the first comb delay at 48000 Hz: 1694.69... becomes 1694
C34_Witness ==
    /\ dl_rate = 48000
    /\ dl_d = 1557
    /\ dl_out = <<1694>>

\* ------------------------------------------------------------------------
\* C35: whenever get_frame() has returned, a frame or None, every sample
\* pushed so far is in a frame that was returned or in the queue, in order:
\* the call dropped nothing of what it took out of the queue, also when
\* the running flag was cleared while it held fewer than FRAME_SIZE samples.
\* ------------------------------------------------------------------------
C35_NothingDropped ==
    pc["mic"] = "idle" => Concat(delivered, Flatten(frame_buf)) = pushed

\* ------------------------------------------------------------------------
\* C36: after start() has raised because the server never became ready,
\* the running flag is false, and a get_frame() call is not left waiting
\* for samples.
\* ------------------------------------------------------------------------
C36_FailedStartStops ==
    (startResult = "raised" /\ probeResult = "timeout") =>
        /\ ~running
        /\ pc["mic"] \notin {"wait", "clear", "lockD", "drain", "while"}

\* ------------------------------------------------------------------------
\* C37: in every interleaving of transition() and return_from_listening()
\* calls, each change of the state goes along an edge of
\* VALID_TRANSITIONS, the saved previous state is never LISTENING, and a
\* return_from_listening() call leaves the machine in IDLE, PLAYING or
\* PAUSED.
\* ------------------------------------------------------------------------
C37_EdgesOnly ==
    /\ [](sm_previous \in {IDLE, PLAYING, PAUSED})
    /\ [][IF sm_state' # sm_state
          THEN sm_state' \in VALID_TRANSITIONS[sm_state]
          ELSE (sm_calls' = sm_calls + 1 /\ sm_last'.op = "return_from_listening")
                  => sm_state' \in {IDLE, PLAYING, PAUSED}
         ]_vars

\* the keyboard thread entered LISTENING from IDLE and the mic thread
\* returned from it, with callbacks registered
C37_Witness ==
    /\ sm_callbacks # {}
    /\ sm_trace = <<IDLE, LISTENING, IDLE>>
    /\ sm_last.op = "return_from_listening"
    /\ sm_last.thread = "mic"
    /\ sm_fired = <<LISTENING>>

\* ------------------------------------------------------------------------
\* C38: whatever the interleaving of the threads calling speak(), at most
\* one worker is ever started, and one is running once a text is queued;
\* the texts are taken in the order they were queued; no two workers are
\* in play_buffer() at once; and the monitor is unmuted only when no
\* worker is in play_buffer().
\* ------------------------------------------------------------------------
C38_OneWorker ==
    /\ [](/\ Cardinality(sp_workers) <= 1
          /\ sp_enq # <<>> => Cardinality(sp_workers) = 1
          /\ sp_taken \o sp_queue = sp_enq
          /\ Cardinality({w \in SpThreads : sp_wpc[w].at = "play"}) <= 1)
    /\ [][(sp_muted /\ ~sp_muted') => \A w \in SpThreads : sp_wpc[w].at # "play"]_vars

\* two threads spoke; the worker started by the first is playing the
\* second text, the first has been played
C38_Witness ==
    /\ sp_workers = {"cmd"}
    /\ sp_enq = <<"searching", "ready">>
    /\ sp_taken = sp_enq
    /\ sp_wpc["cmd"] = [at |-> "play", text |-> "ready"]
    /\ sp_pc["main"] = SpIdle
    /\ sp_muted
    /\ sp_calls = 2

\* ------------------------------------------------------------------------
\* C39: whatever the interleaving of the spacebar handler and the mic
\* loop, transition(LISTENING) is never called while the state is
\* LISTENING: no such ValueError escapes, and the mic loop thread does not
\* end.
\* ------------------------------------------------------------------------
C39_NeverListeningTwice ==
    /\ \A e \in kj_errors : ~(e.from = LISTENING /\ e.to = LISTENING)
    /\ kj_pc["mic"].at # "dead"

\* ------------------------------------------------------------------------
\* C40: every song taken from the queue by _check or _on_song_end is given
\* to the player: it is held by a thread still on its way to player.play()
\* or it has been played; none is lost to a failed transition.
\* ------------------------------------------------------------------------
C40_PoppedIsPlayed ==
    /\ \A i \in 1..Len(sq_removed) :
         \/ \E j \in 1..Len(kj_played) : kj_played[j] = sq_removed[i]
         \/ \E t \in KjThreads : kj_pc[t].song = sq_removed[i]
    /\ \A e \in kj_errors : e.song = "none"

====
